---- MODULE Spec2Model ----
(***************************************************************************)
(* PlayingPack: the session broker (SessionManager), the lifecycle engine *)
(* (handleChatCompletions) and the operator's decision surface (tRPC      *)
(* router / WebSocket handler), as a state machine.                       *)
(*                                                                         *)
(* Two specifications share the broker's operators:                       *)
(*   Spec        the running server: lifecycle tasks, one per request,    *)
(*               interleaved at their awaits with the operator's calls;   *)
(*   BrokerSpec  the SessionManager API called in any order, as a unit    *)
(*               test may call it.                                        *)
(***************************************************************************)
EXTENDS Integers, Sequences, FiniteSets, TLC

(***************************************************************************)
(* Bounds                                                                  *)
(***************************************************************************)
MaxFps    == 1   \* distinct request fingerprints
MaxAwaits == 2   \* waitForPointN calls per session and point (BrokerSpec)
MaxCalls  == 3   \* emitting broker calls per session (BrokerSpec)

\* Session ids (UUIDs in the program).  Two requests in flight show every
\* interleaving of one lifecycle task with another; the tasks share nothing
\* but the manager, the settings and the cache directory.
Ids == {1, 2}
Fps == 1..MaxFps

(***************************************************************************)
(* Shared types (packages/shared)                                          *)
(***************************************************************************)
CacheModes == {"off", "read", "read-write"}

RequestStates == {"pending", "processing", "reviewing", "complete"}

\* Operator-supplied content strings: the empty string and a plain text.
Contents == {"", "hello"}

Point1Actions ==
  {[action |-> "llm"], [action |-> "cache"]}
    \cup {[action |-> "mock", content |-> c] : c \in Contents}

Point2Actions ==
  {[action |-> "return"]}
    \cup {[action |-> "modify", content |-> c] : c \in Contents}

VARIABLES
  mgr,          \* the SessionManager object
  proxyConfig,  \* routes.ts module-level config
  cacheFiles,   \* the cache directory: fingerprint -> file at <fp>.json
  body,         \* per request: the body the client posted
  pc,           \* per request: where its lifecycle task stands
  loc,          \* per request: the task's local variables
  reply,        \* per request: what has been written to the client
  client,       \* per request: the client's connection
  store,        \* cache/store.ts exercised alone: a recorder, its file, a player
  hasher,       \* cache/hasher.ts exercised alone: a body and its edits
  parser,       \* the SSE stream parser exercised alone, with its input
  mock,         \* the mock generator exercised alone: a content and its stream
  upstream,     \* getFromLLM's request preparation exercised alone
  registry      \* the manager's session map over a long run, in insertion order

\* The library components are exercised by specifications of their own; the
\* server's actions leave them alone.
lib == <<store, hasher, parser, mock, upstream, registry>>
server == <<mgr, proxyConfig, cacheFiles, body, pc, loc, reply, client>>
vars == <<mgr, proxyConfig, cacheFiles, body, pc, loc, reply, client,
          store, hasher, parser, mock, upstream, registry>>

Unused == <<>>
LibUnused ==
  /\ store = Unused /\ hasher = Unused /\ parser = Unused
  /\ mock = Unused /\ upstream = Unused /\ registry = Unused

(***************************************************************************)
(* SessionManager                                                          *)
(***************************************************************************)
NoResponse == [present |-> FALSE]

DefaultResponse ==
  [present |-> TRUE, status |-> 200, content |-> <<>>, toolCalls |-> <<>>,
   finishReason |-> "unset", usage |-> FALSE]

\* A promise handed out by waitForPointN.
Pending == [settled |-> FALSE]
Settled(a) == [settled |-> TRUE, value |-> a]

\* A hub client's socket: not connected, or open with the events sent to it
\* (the first `snapshot` of them at its connection).
Clients == {"a", "b"}
NoSocket == [open |-> FALSE, snapshot |-> 0, inbox |-> <<>>]
RequestUpdate(m, id) == [type |-> "request_update", id |-> id, session |-> m.sessions[id]]

\* The listener handleConnection subscribes: sendToClient(socket, event).
sendToClient(socket, event) ==
  IF socket.open THEN [socket EXCEPT !.inbox = Append(@, event)] ELSE socket

\* request_update: emit() hands the session to every listener.  emitted[id]
\* keeps how many were emitted for the id and the state the last one carried.
emit(m, id) ==
  [m EXCEPT !.emitted[id] = [n |-> @.n + 1, last |-> m.sessions[id].state],
            !.listeners = [c \in Clients |->
                             sendToClient(m.listeners[c], RequestUpdate(m, id))]]

Has(m, id) == id \in DOMAIN m.sessions

\* Faulty variant: every session starts pending, whatever the setting.
NewSessionPending(m, b) ==
  [state |-> "pending",
   cacheKey |-> b.fp,
   cacheAvailable |-> FALSE,
   responseSource |-> "unset",
   response |-> NoResponse,
   error |-> "unset",
   processingStartedAt |-> FALSE,
   completedAt |-> FALSE]

NewSession(m, b) ==
  [state |-> IF m.settings.intervene THEN "pending" ELSE "processing",
   cacheKey |-> b.fp,
   cacheAvailable |-> FALSE,
   responseSource |-> "unset",
   response |-> NoResponse,
   error |-> "unset",
   processingStartedAt |-> FALSE,
   completedAt |-> FALSE]

createSession(m, id, b) ==
  emit([m EXCEPT !.sessions = (id :> NewSession(m, b)) @@ @], id)

updateState(m, id, s) ==
  IF Has(m, id) THEN emit([m EXCEPT !.sessions[id].state = s], id) ELSE m

setProcessing(m, id) ==
  IF Has(m, id)
  THEN emit([m EXCEPT !.sessions[id].state = "processing",
                      !.sessions[id].processingStartedAt = TRUE], id)
  ELSE m

setReviewing(m, id) == updateState(m, id, "reviewing")

setCacheAvailable(m, id, available) ==
  IF Has(m, id)
  THEN emit([m EXCEPT !.sessions[id].cacheAvailable = available], id)
  ELSE m

\* Faulty variant: the source is set without telling the listeners.
setResponseSourceSilent(m, id, source) ==
  IF Has(m, id) THEN [m EXCEPT !.sessions[id].responseSource = source] ELSE m

setResponseSource(m, id, source) ==
  IF Has(m, id)
  THEN emit([m EXCEPT !.sessions[id].responseSource = source], id)
  ELSE m

setResponse(m, id, status) ==
  IF Has(m, id)
  THEN emit([m EXCEPT !.sessions[id].response =
               [DefaultResponse EXCEPT !.status = status]], id)
  ELSE m

\* "if (!session.response) session.response = {status: 200, ...}"
WithResponse(m, id) ==
  IF m.sessions[id].response.present THEN m
  ELSE [m EXCEPT !.sessions[id].response = DefaultResponse]

addToolCall(m, id, tc) ==
  IF Has(m, id)
  THEN emit([WithResponse(m, id) EXCEPT
               !.sessions[id].response.toolCalls = Append(@, tc)], id)
  ELSE m

appendContent(m, id, c) ==
  IF Has(m, id)
  THEN [WithResponse(m, id) EXCEPT
          !.sessions[id].response.content = Append(@, c)]
  ELSE m

setFinishReason(m, id, reason) ==
  IF Has(m, id)
  THEN emit([WithResponse(m, id) EXCEPT
               !.sessions[id].response.finishReason = reason], id)
  ELSE m

setUsage(m, id) ==
  IF Has(m, id)
  THEN emit([WithResponse(m, id) EXCEPT
               !.sessions[id].response.usage = TRUE], id)
  ELSE m

complete(m, id) ==
  IF Has(m, id)
  THEN emit([m EXCEPT !.sessions[id].state = "complete",
                      !.sessions[id].completedAt = TRUE], id)
  ELSE m

error(m, id, msg) ==
  IF Has(m, id)
  THEN emit([m EXCEPT !.sessions[id].state = "complete",
                      !.sessions[id].error = msg,
                      !.sessions[id].completedAt = TRUE], id)
  ELSE m

shouldIntervene(m) == m.settings.intervene

\* waitForPoint1: throws for an unknown id; otherwise returns a new promise
\* and stores its resolver under the id, over whatever was stored there.
waitForPoint1(m, id) ==
  IF ~Has(m, id) THEN [m |-> m, threw |-> TRUE]
  ELSE [m |-> [m EXCEPT !.promises1[id] = Append(@, Pending),
                        !.point1Resolvers[id] = Len(m.promises1[id]) + 1],
        threw |-> FALSE]

waitForPoint2(m, id) ==
  IF ~Has(m, id) THEN [m |-> m, threw |-> TRUE]
  ELSE LET m1 == updateState(m, id, "reviewing")
       IN [m |-> [m1 EXCEPT !.promises2[id] = Append(@, Pending),
                            !.point2Resolvers[id] = Len(m.promises2[id]) + 1],
           threw |-> FALSE]

\* Faulty variant: the resolver is released without the transition to processing.
resolvePoint1NoTransition(m, id, a) ==
  LET r == m.point1Resolvers[id] IN
  IF r # 0
  THEN [m |-> [m EXCEPT !.point1Resolvers[id] = 0,
                        !.promises1[id][r] = Settled(a)], ok |-> TRUE]
  ELSE [m |-> m, ok |-> FALSE]

\* Faulty variant: the transition to processing is applied to every session.
resolvePoint1Broadcast(m, id, a) ==
  LET r == m.point1Resolvers[id] IN
  IF r # 0
  THEN LET m1 == [m EXCEPT !.point1Resolvers[id] = 0,
                           !.promises1[id][r] = Settled(a)]
       IN [m |-> [m1 EXCEPT !.sessions =
                    [i \in DOMAIN m.sessions |->
                       [m.sessions[i] EXCEPT !.state = "processing"]]],
           ok |-> TRUE]
  ELSE [m |-> m, ok |-> FALSE]

\* resolvePoint1: {m: the manager afterwards, ok: the value returned}.
resolvePoint1(m, id, a) ==
  LET r == m.point1Resolvers[id] IN
  IF r # 0
  THEN LET m1 == [m EXCEPT !.point1Resolvers[id] = 0]
           m2 == setProcessing(m1, id)
       IN [m |-> [m2 EXCEPT !.promises1[id][r] = Settled(a)], ok |-> TRUE]
  ELSE [m |-> m, ok |-> FALSE]

\* Faulty variant: the resolver is dropped and the awaiter never released.
resolvePoint2Lost(m, id, a) ==
  [m |-> [m EXCEPT !.point2Resolvers[id] = 0],
   ok |-> m.point2Resolvers[id] # 0]

\* Faulty variant: a call without a pending awaiter still marks the session.
resolvePoint2Unguarded(m, id, a) ==
  LET r == m.point2Resolvers[id] IN
  IF r # 0
  THEN [m |-> [m EXCEPT !.point2Resolvers[id] = 0,
                        !.promises2[id][r] = Settled(a)], ok |-> TRUE]
  ELSE [m |-> updateState(m, id, "complete"), ok |-> TRUE]

resolvePoint2(m, id, a) ==
  LET r == m.point2Resolvers[id] IN
  IF r # 0
  THEN LET m1 == [m EXCEPT !.point2Resolvers[id] = 0]
       IN [m |-> [m1 EXCEPT !.promises2[id][r] = Settled(a)], ok |-> TRUE]
  ELSE [m |-> m, ok |-> FALSE]

\* updateSettings(partial): the given keys replace the stored ones.
updateSettings(m, partial) ==
  [m EXCEPT !.settings =
     [k \in DOMAIN m.settings |->
        IF k \in DOMAIN partial THEN partial[k] ELSE m.settings[k]]]

\* new SessionManager(initialSettings)
NewManager(initialSettings) ==
  [sessions |-> <<>>,
   settings |-> initialSettings,
   point1Resolvers |-> [i \in Ids |-> 0],
   point2Resolvers |-> [i \in Ids |-> 0],
   promises1 |-> [i \in Ids |-> <<>>],
   promises2 |-> [i \in Ids |-> <<>>],
   emitted |-> [i \in Ids |-> [n |-> 0, last |-> "none"]],
   listeners |-> [c \in Clients |-> NoSocket]]


(***************************************************************************)
(* Lifecycle engine: handleChatCompletions                                 *)
(***************************************************************************)
NoData == [present |-> FALSE]

NoReply == [sent |-> FALSE]

\* The task's locals before the handler has run.
InitLoc ==
  [shouldReadCache |-> FALSE, shouldWriteCache |-> FALSE, cacheOnly |-> FALSE,
   hasCache |-> FALSE, responseSource |-> "llm", mockContent |-> "undefined",
   responseData |-> NoData]

\* Bytes of an OK upstream stream; a replay of the record made from it yields
\* the same bytes.
StreamBytes == [from |-> "upstream"]
ErrorBytes == [from |-> "upstream-error"]
MockBytes(c) == [from |-> "mock", content |-> c]

\* A task's view of the world while it runs one synchronous stretch.
Ctx(id) == [m |-> mgr, pc |-> pc[id], loc |-> loc[id], reply |-> reply[id]]

Commit(id, c) ==
  /\ mgr' = c.m
  /\ pc' = [pc EXCEPT ![id] = c.pc]
  /\ loc' = [loc EXCEPT ![id] = IF c.pc = "done" THEN InitLoc ELSE c.loc]
  /\ reply' = [reply EXCEPT ![id] = c.reply]

\* sendBufferedResponse
sendBufferedResponse(data) ==
  [sent |-> TRUE, status |-> data.status, content |-> data.content,
   headers |-> (IF data.cached THEN {"x-playingpack-cached"} ELSE {})
                 \cup (IF data.mocked THEN {"x-playingpack-mocked"} ELSE {})]

\* generateMockResponseData
generateMockResponseData(content) ==
  [present |-> TRUE, content |-> MockBytes(content), status |-> 200,
   cached |-> FALSE, mocked |-> TRUE]

\* Faulty variant: the session is never marked complete.
FinishWithoutComplete(c, id) ==
  [c EXCEPT !.reply = IF c.loc.responseData.present
                      THEN sendBufferedResponse(c.loc.responseData)
                      ELSE @,
            !.m = setResponseSource(c.m, id, c.loc.responseSource),
            !.pc = "done"]

\* "if (responseData) sendBufferedResponse(...); setResponseSource; complete"
Finish(c, id) ==
  LET m1 == setResponseSource(c.m, id, c.loc.responseSource)
  IN [c EXCEPT !.reply = IF c.loc.responseData.present
                         THEN sendBufferedResponse(c.loc.responseData)
                         ELSE @,
               !.m = complete(m1, id),
               !.pc = "done"]

\* Faulty variant: the 500 is sent but the session is left as it was.
FailWithoutSessionError(c, id, msg) ==
  [c EXCEPT !.reply = IF c.reply.sent THEN @
                      ELSE [sent |-> TRUE, status |-> 500,
                            content |-> [from |-> "proxy_error"], headers |-> {}],
            !.pc = "done"]

\* The catch block: the session is marked errored; 500 unless a reply was sent.
Fail(c, id, msg) ==
  [c EXCEPT !.m = error(c.m, id, msg),
            !.reply = IF c.reply.sent THEN @
                      ELSE [sent |-> TRUE, status |-> 500,
                            content |-> [from |-> "proxy_error"], headers |-> {}],
            !.pc = "done"]

\* Faulty variant: the buffer is written to the client before point 2 is awaited.
Point2CheckEager(c, id) ==
  IF shouldIntervene(c.m) /\ c.loc.responseData.present
  THEN [c EXCEPT !.m = waitForPoint2(c.m, id).m, !.pc = "point2",
                 !.reply = sendBufferedResponse(c.loc.responseData)]
  ELSE Finish(c, id)

\* Intervention point 2, reached with the response buffered.
Point2Check(c, id) ==
  IF shouldIntervene(c.m) /\ c.loc.responseData.present
  THEN LET w == waitForPoint2(c.m, id)
       IN IF w.threw THEN Fail(c, id, "Session not found")
          ELSE [c EXCEPT !.m = w.m, !.pc = "point2"]
  ELSE Finish(c, id)

\* Faulty variant: the llm case does not look at cacheOnly.
SelectSourceIgnoresCacheOnly(c, id) ==
  IF c.loc.responseSource = "cache" /\ ~c.loc.hasCache
  THEN Fail(c, id, "Cache requested but no cached response available")
  ELSE [c EXCEPT !.pc = "acquire"]

\* The switch on responseSource, up to the first await of the chosen path.
SelectSource(c, id) ==
  CASE c.loc.responseSource = "cache" ->
         IF ~c.loc.hasCache
         THEN Fail(c, id, "Cache requested but no cached response available")
         ELSE [c EXCEPT !.pc = "acquire"]
    [] c.loc.responseSource = "llm" ->
         IF c.loc.cacheOnly
         THEN [c EXCEPT !.m = error(c.m, id, "No cached response (cache: read mode)"),
                        !.reply = [sent |-> TRUE, status |-> 404,
                                   content |-> [from |-> "cache_not_found"],
                                   headers |-> {}],
                        !.pc = "done"]
         ELSE [c EXCEPT !.pc = "acquire"]
    [] c.loc.responseSource = "mock" -> [c EXCEPT !.pc = "acquire"]

\* setCacheAvailable, then intervention point 1 or the automatic choice.
Point1Check(c, id) ==
  LET m1 == setCacheAvailable(c.m, id, c.loc.hasCache)
      c1 == [c EXCEPT !.m = m1,
                      !.loc.responseSource = IF c.loc.hasCache THEN "cache" ELSE "llm"]
  IN IF shouldIntervene(m1)
     THEN LET w == waitForPoint1(m1, id)
          IN IF w.threw THEN [c1 EXCEPT !.pc = "rejected"]
             ELSE [c1 EXCEPT !.m = w.m, !.pc = "point1"]
     ELSE SelectSource(c1, id)

\* POST /v1/chat/completions arrives: the handler runs to its first await.
\* Request ids are fresh UUIDs; the model hands them out in order.
Begin(id, b) ==
  /\ pc[id] = "idle"
  /\ \A j \in Ids : j < id => pc[j] # "idle"
  /\ b.fp <= id   \* fingerprints are interchangeable: the k-th request uses one of the first k
  /\ body' = [body EXCEPT ![id] = b]
  /\ UNCHANGED <<lib, client, proxyConfig, cacheFiles>>
  /\ LET c0 == [Ctx(id) EXCEPT
                  !.m = createSession(mgr, id, b),
                  !.loc.shouldReadCache = (proxyConfig.cache # "off"),
                  !.loc.shouldWriteCache = (proxyConfig.cache = "read-write"),
                  !.loc.cacheOnly = (proxyConfig.cache = "read")]
     IN IF c0.loc.shouldReadCache
        THEN Commit(id, [c0 EXCEPT !.pc = "cacheExists"])
        ELSE Commit(id, Point1Check(c0, id))

\* Faulty variant: only a file that loads counts as existing.
cacheExistsLoadable(b) == cacheFiles[b.fp] = "ok"

\* cacheExists: access() succeeds whenever a file is at the path.
cacheExists(b) == cacheFiles[b.fp] # "absent"

CacheChecked(id) ==
  /\ pc[id] = "cacheExists"
  /\ UNCHANGED <<lib, client, proxyConfig, cacheFiles, body>>
  /\ Commit(id, Point1Check([Ctx(id) EXCEPT !.loc.hasCache = cacheExists(body[id])], id))

\* Faulty variant: a mock action falls through to the llm case.
Resume1MockFallsThrough(id) ==
  /\ pc[id] = "point1"
  /\ mgr.promises1[id][1].settled
  /\ UNCHANGED <<lib, client, proxyConfig, cacheFiles, body>>
  /\ LET action == mgr.promises1[id][1].value
         c1 == [Ctx(id) EXCEPT
                  !.loc.responseSource = IF action.action = "cache"
                                         THEN "cache" ELSE "llm"]
     IN Commit(id, SelectSource(c1, id))

\* The task resumes from waitForPoint1 with the action its promise settled to.
Resume1(id) ==
  /\ pc[id] = "point1"
  /\ mgr.promises1[id][1].settled
  /\ UNCHANGED <<lib, client, proxyConfig, cacheFiles, body>>
  /\ LET action == mgr.promises1[id][1].value
         c1 == [Ctx(id) EXCEPT
                  !.loc.responseSource = action.action,
                  !.loc.mockContent = IF action.action = "mock"
                                      THEN action.content ELSE @]
     IN Commit(id, SelectSource(c1, id))

\* The SSE parser's callbacks on an OK stream of text deltas: getFromLLM
\* registers onContent, onFinishReason and onUsage, getFromCache onContent.
FeedLLM(m, id) ==
  setUsage(setFinishReason(appendContent(m, id, "Hi"), id, "stop"), id)

FeedCache(m, id) == appendContent(m, id, "Hi")

\* The buffer getFromLLM returns for an OK upstream stream.
LLMData ==
  [present |-> TRUE, content |-> StreamBytes, status |-> 200,
   cached |-> FALSE, mocked |-> FALSE]

\* CacheRecorder.save writes with writeFile(filePath, json): the file at
\* <fingerprint>.json is opened truncating, the record is written from
\* offset 0, the file is closed.  Between the open and the end of the write
\* the path holds a prefix of the record ("partial"), which does not parse.
openForWrite(files, b) == [files EXCEPT ![b.fp] = "partial"]

\* What the path holds when a writer finishes writing its record.  If the
\* file still is what its open left (or what a later open of another writer
\* left), the record is complete.  If another writer wrote its record in the
\* meantime, this record overwrites it from offset 0: a longer one replaces
\* it, a shorter one leaves the other's tail behind it (records differ in
\* length by their timestamps and delays).
writeRecord(file) == IF file = "partial" THEN {"ok"} ELSE {"ok", "corrupt"}

\* getFromLLM, for each way upstream may answer.
AcquireLLM(id) ==
  /\ pc[id] = "acquire" /\ loc[id].responseSource = "llm"
  /\ UNCHANGED <<lib, client, proxyConfig, body>>
  /\ \E outcome \in {"throw", "error", "ok"} :
       CASE outcome = "throw" ->
              /\ Commit(id, Fail(Ctx(id), id, "fetch failed"))
              /\ UNCHANGED cacheFiles
         [] outcome = "error" ->
              /\ Commit(id, Point2Check([Ctx(id) EXCEPT !.loc.responseData =
                     [present |-> TRUE, content |-> ErrorBytes,
                      status |-> 429,
                      cached |-> FALSE, mocked |-> FALSE]], id))
              /\ UNCHANGED cacheFiles
         [] OTHER ->
              IF loc[id].shouldWriteCache
              THEN /\ Commit(id, [Ctx(id) EXCEPT !.m = FeedLLM(mgr, id),
                                                 !.pc = "save"])
                   /\ cacheFiles' = openForWrite(cacheFiles, body[id])
              ELSE /\ Commit(id, Point2Check([Ctx(id) EXCEPT
                          !.m = FeedLLM(mgr, id),
                          !.loc.responseData = LLMData], id))
                   /\ UNCHANGED cacheFiles

\* recorder.save(): writeFile completes, then getFromLLM returns the buffer.
Save(id) ==
  /\ pc[id] = "save"
  /\ UNCHANGED <<lib, client, proxyConfig, body>>
  /\ \E f \in writeRecord(cacheFiles[body[id].fp]) :
       cacheFiles' = [cacheFiles EXCEPT ![body[id].fp] = f]
  /\ Commit(id, Point2Check([Ctx(id) EXCEPT !.loc.responseData = LLMData], id))

\* getFromCache: createPlayer yields null for a file that does not load.
AcquireCache(id) ==
  /\ pc[id] = "acquire" /\ loc[id].responseSource = "cache"
  /\ UNCHANGED <<lib, client, proxyConfig, cacheFiles, body>>
  /\ LET file == cacheFiles[body[id].fp]
     IN IF file = "ok"
        THEN Commit(id, Point2Check([Ctx(id) EXCEPT
               !.m = FeedCache(mgr, id),
               !.loc.responseData =
                 [present |-> TRUE, content |-> StreamBytes,
                  status |-> 200,
                  cached |-> TRUE, mocked |-> FALSE]], id))
        ELSE Commit(id, Fail(Ctx(id), id, "Failed to load cached response"))

AcquireMock(id) ==
  /\ pc[id] = "acquire" /\ loc[id].responseSource = "mock"
  /\ UNCHANGED <<lib, client, proxyConfig, cacheFiles, body>>
  /\ LET content == IF loc[id].mockContent = "undefined" THEN ""
                    ELSE loc[id].mockContent
     IN Commit(id, Point2Check([Ctx(id) EXCEPT
          !.loc.responseData = generateMockResponseData(content)], id))

\* The task resumes from waitForPoint2.
Resume2(id) ==
  /\ pc[id] = "point2"
  /\ mgr.promises2[id][1].settled
  /\ UNCHANGED <<lib, client, proxyConfig, cacheFiles, body>>
  /\ LET action == mgr.promises2[id][1].value
         c1 == IF action.action = "modify" /\ action.content # ""
               THEN [Ctx(id) EXCEPT
                       !.loc.responseData = generateMockResponseData(action.content)]
               ELSE Ctx(id)
     IN Commit(id, Finish(c1, id))

(***************************************************************************)
(* The operator: tRPC router and WebSocket handler                         *)
(***************************************************************************)
point1Action(id, a) ==
  /\ UNCHANGED <<lib, client, proxyConfig, cacheFiles, body, pc, loc, reply>>
  /\ mgr' = resolvePoint1(mgr, id, a).m

point2Action(id, a) ==
  /\ UNCHANGED <<lib, client, proxyConfig, cacheFiles, body, pc, loc, reply>>
  /\ mgr' = resolvePoint2(mgr, id, a).m

InterveneUpdates == {[intervene |-> b] : b \in BOOLEAN}
CacheUpdates == {[cache |-> c] : c \in CacheModes}

UpdateSettings(partial) ==
  /\ mgr' = updateSettings(mgr, partial)
  /\ UNCHANGED <<lib, client, proxyConfig, cacheFiles, body, pc, loc, reply>>

(***************************************************************************)
(* The running server                                                      *)
(***************************************************************************)
Bodies == [fp : Fps]

\* startServer: the manager and the proxy routes get the same configured
\* cache mode; the cache directory holds whatever earlier runs left.
Init ==
  /\ \E c \in CacheModes, i \in BOOLEAN :
       /\ mgr = NewManager([cache |-> c, intervene |-> i])
       /\ proxyConfig = [cache |-> c]
  /\ cacheFiles \in [Fps -> {"absent", "corrupt", "ok"}]
  /\ body = [i \in Ids |-> [fp |-> 1]]
  /\ pc = [i \in Ids |-> "idle"]
  /\ loc = [i \in Ids |-> InitLoc]
  /\ reply = [i \in Ids |-> NoReply]
  /\ client = [i \in Ids |-> "connected"]
  /\ LibUnused

Next ==
  \/ \E id \in Ids, b \in Bodies : Begin(id, b)
  \/ \E id \in Ids : CacheChecked(id)
  \/ \E id \in Ids : Resume1(id)
  \/ \E id \in Ids : AcquireLLM(id)
  \/ \E id \in Ids : Save(id)
  \/ \E id \in Ids : AcquireCache(id)
  \/ \E id \in Ids : AcquireMock(id)
  \/ \E id \in Ids : Resume2(id)
  \/ \E id \in Ids, a \in Point1Actions : point1Action(id, a)
  \/ \E id \in Ids, a \in Point2Actions : point2Action(id, a)
  \/ \E p \in InterveneUpdates : UpdateSettings(p)

Spec == Init /\ [][Next]_vars

\* The same server, with nobody changing the settings it was started with.
FixedNext ==
  \/ \E id \in Ids, b \in Bodies : Begin(id, b)
  \/ \E id \in Ids : CacheChecked(id)
  \/ \E id \in Ids : Resume1(id)
  \/ \E id \in Ids : AcquireLLM(id)
  \/ \E id \in Ids : Save(id)
  \/ \E id \in Ids : AcquireCache(id)
  \/ \E id \in Ids : AcquireMock(id)
  \/ \E id \in Ids : Resume2(id)
  \/ \E id \in Ids, a \in Point1Actions : point1Action(id, a)
  \/ \E id \in Ids, a \in Point2Actions : point2Action(id, a)

FixedSpec == Init /\ [][FixedNext]_vars

\* The same server, with the operator also changing the cache setting.
NextSettings ==
  \/ Next
  \/ \E p \in CacheUpdates : UpdateSettings(p)

SettingsSpec == Init /\ [][NextSettings]_vars


\* Every lifecycle task that can run does run, and the operator answers every
\* pending decision point: the event loop schedules each ready continuation,
\* and the claims about termination assume an operator who eventually clicks.
TaskStep(id) ==
  \/ CacheChecked(id)
  \/ Resume1(id)
  \/ AcquireLLM(id)
  \/ Save(id)
  \/ AcquireCache(id)
  \/ AcquireMock(id)
  \/ Resume2(id)

FairSpec ==
  /\ Spec
  /\ \A id \in Ids : WF_vars(TaskStep(id))
  /\ \A id \in Ids : WF_vars(\E a \in Point1Actions : point1Action(id, a))
  /\ \A id \in Ids : WF_vars(\E a \in Point2Actions : point2Action(id, a))

(***************************************************************************)
(* The SessionManager API called in any order                              *)
(***************************************************************************)
\* Emitting calls made so far.
Calls == mgr.emitted[1].n + mgr.emitted[2].n

Api(m) ==
  /\ mgr' = m
  /\ UNCHANGED <<lib, client, proxyConfig, cacheFiles, body, pc, loc, reply>>

Emitting(m) == Calls < MaxCalls /\ Api(m)

ApiCreateSession(id) == ~Has(mgr, id) /\ Emitting(createSession(mgr, id, [fp |-> 1]))
ApiUpdateState(id, st) == Emitting(updateState(mgr, id, st))
ApiSetProcessing(id) == Emitting(setProcessing(mgr, id))
ApiSetReviewing(id) == Emitting(setReviewing(mgr, id))
ApiSetCacheAvailable(id, v) == Emitting(setCacheAvailable(mgr, id, v))
ApiSetResponseSource(id, src) == Emitting(setResponseSource(mgr, id, src))
ApiSetResponse(id, status) == Emitting(setResponse(mgr, id, status))
ApiAddToolCall(id) == Emitting(addToolCall(mgr, id, "call"))
ApiSetFinishReason(id) == Emitting(setFinishReason(mgr, id, "stop"))
ApiSetUsage(id) == Emitting(setUsage(mgr, id))
ApiComplete(id) == Emitting(complete(mgr, id))
ApiError(id) == Emitting(error(mgr, id, "Something went wrong"))

ApiAppendContent(id) ==
  /\ Has(mgr, id) => ~mgr.sessions[id].response.present
  /\ Api(appendContent(mgr, id, "Hi"))

ApiWaitForPoint1(id) ==
  /\ Len(mgr.promises1[id]) < MaxAwaits
  /\ Api(waitForPoint1(mgr, id).m)

ApiWaitForPoint2(id) ==
  /\ Len(mgr.promises2[id]) < MaxAwaits
  /\ Calls < MaxCalls
  /\ Api(waitForPoint2(mgr, id).m)

ApiResolvePoint1(id, a) == Emitting(resolvePoint1(mgr, id, a).m)
ApiResolvePoint2(id, a) == Api(resolvePoint2(mgr, id, a).m)

\* new SessionManager(): the defaults, nothing else running.
BrokerInit ==
  /\ mgr = NewManager([cache |-> "read-write", intervene |-> TRUE])
  /\ proxyConfig = [cache |-> "read-write"]
  /\ cacheFiles = [f \in Fps |-> "absent"]
  /\ body = [i \in Ids |-> [fp |-> 1]]
  /\ pc = [i \in Ids |-> "idle"]
  /\ loc = [i \in Ids |-> InitLoc]
  /\ reply = [i \in Ids |-> NoReply]
  /\ client = [i \in Ids |-> "connected"]
  /\ LibUnused

BrokerNext ==
  \/ \E id \in Ids : ApiCreateSession(id)
  \/ \E id \in Ids, st \in RequestStates : ApiUpdateState(id, st)
  \/ \E id \in Ids : ApiSetProcessing(id)
  \/ \E id \in Ids : ApiSetReviewing(id)
  \/ \E id \in Ids, v \in BOOLEAN : ApiSetCacheAvailable(id, v)
  \/ \E id \in Ids, src \in {"llm", "cache", "mock"} : ApiSetResponseSource(id, src)
  \/ \E id \in Ids, status \in {200, 429} : ApiSetResponse(id, status)
  \/ \E id \in Ids : ApiAddToolCall(id)
  \/ \E id \in Ids : ApiAppendContent(id)
  \/ \E id \in Ids : ApiSetFinishReason(id)
  \/ \E id \in Ids : ApiSetUsage(id)
  \/ \E id \in Ids : ApiComplete(id)
  \/ \E id \in Ids : ApiError(id)
  \/ \E id \in Ids : ApiWaitForPoint1(id)
  \/ \E id \in Ids : ApiWaitForPoint2(id)
  \/ \E id \in Ids, a \in Point1Actions : ApiResolvePoint1(id, a)
  \/ \E id \in Ids, a \in Point2Actions : ApiResolvePoint2(id, a)
  \/ \E p \in InterveneUpdates : UpdateSettings(p)

BrokerSpec == BrokerInit /\ [][BrokerNext]_vars

(***************************************************************************)
(* The hub: WebSocket clients connecting to the broker                     *)
(***************************************************************************)
\* Faulty variant: the client is subscribed without being sent the snapshot.
handleConnectionNoSnapshot(m, c, order) ==
  [m EXCEPT !.listeners[c] = [open |-> TRUE, snapshot |-> 0, inbox |-> <<>>]]

\* getAllSessions() lists the sessions in the order of their creation, which
\* the manager's record does not keep: order is any order of the ids present.
handleConnection(m, c, order) ==
  [m EXCEPT !.listeners[c] =
     [open |-> TRUE, snapshot |-> Len(order),
      inbox |-> [i \in 1..Len(order) |-> RequestUpdate(m, order[i])]]]

Orders(ids) ==
  {order \in UNION {[1..n -> ids] : n \in 0..Cardinality(ids)} :
     /\ Len(order) = Cardinality(ids)
     /\ \A i, j \in 1..Len(order) : i # j => order[i] # order[j]}

Connect(c) ==
  /\ ~mgr.listeners[c].open
  /\ \E order \in Orders(DOMAIN mgr.sessions) : Api(handleConnection(mgr, c, order))

\* The socket's close or error event: unsubscribe().
Disconnect(c) ==
  /\ mgr.listeners[c].open
  /\ Api([mgr EXCEPT !.listeners[c] = NoSocket])

\* The broker calls a request's life is made of, and clients coming and going.
HubNext ==
  \/ \E id \in Ids : ApiCreateSession(id)
  \/ \E id \in Ids : ApiSetProcessing(id)
  \/ \E id \in Ids : ApiAppendContent(id)
  \/ \E id \in Ids : ApiComplete(id)
  \/ \E c \in Clients : Connect(c)
  \/ \E c \in Clients : Disconnect(c)

HubSpec == BrokerInit /\ [][HubNext]_vars


(***************************************************************************)
(* cache/store.ts alone: CacheRecorder, the file, CachePlayer              *)
(***************************************************************************)
MaxChunks == 2

\* Chunk data are strings, here sequences of characters; the quote and the
\* backslash are the characters JSON has to escape.
ChunkData == {<<>>, <<"a">>, <<"\"">>, <<"\\">>, <<"\\", "a">>}
Delays == {0, 1}

RECURSIVE escape(_)
RECURSIVE unescape(_)
\* JSON.stringify of a string, between its quotes.
escape(str) ==
  IF str = <<>> THEN <<>>
  ELSE (IF Head(str) \in {"\"", "\\"} THEN <<"\\", Head(str)>> ELSE <<Head(str)>>)
         \o escape(Tail(str))

\* JSON.parse of a string literal, between its quotes.
unescape(text) ==
  IF text = <<>> THEN <<>>
  ELSE IF Head(text) = "\\" /\ Len(text) >= 2
         THEN <<text[2]>> \o unescape(Tail(Tail(text)))
         ELSE <<Head(text)>> \o unescape(Tail(text))

stringify(cached) ==
  [status |-> cached.status,
   chunks |-> [i \in 1..Len(cached.chunks) |->
                 [data |-> escape(cached.chunks[i].data),
                  delay |-> cached.chunks[i].delay]]]

parse(content) ==
  [status |-> content.status,
   chunks |-> [i \in 1..Len(content.chunks) |->
                 [data |-> unescape(content.chunks[i].data),
                  delay |-> content.chunks[i].delay]]]

\* new CacheRecorder(), no file, no player.  given lists the data handed to
\* recordChunk, out the data the replay has yielded, abortedAt how many chunks
\* had been yielded when abort() was first called (-1: never).
NewStore ==
  [at |-> "new", chunks |-> <<>>, given |-> <<>>, file |-> "absent",
   cached |-> <<>>, aborted |-> FALSE, i |-> 0, out |-> <<>>, abortedAt |-> -1]

StoreStep(st) == store' = st /\ UNCHANGED <<server, hasher, parser, mock, upstream, registry>>

RecorderStart ==
  /\ store.at = "new"
  /\ StoreStep([store EXCEPT !.at = "recording", !.chunks = <<>>])

\* Faulty variant: the chunk is not kept.
recordChunkNone(st, data, elapsed) == [st EXCEPT !.given = Append(@, data)]

recordChunk(st, data, elapsed) ==
  [st EXCEPT !.chunks = Append(@, [data |-> data,
                                   delay |-> IF Len(@) = 0 THEN 0 ELSE elapsed]),
             !.given = Append(@, data)]

RecordChunk(data, elapsed) ==
  /\ store.at = "recording" /\ Len(store.chunks) < MaxChunks
  /\ StoreStep(recordChunk(store, data, elapsed))

RecorderSave ==
  /\ store.at = "recording"
  /\ StoreStep([store EXCEPT !.at = "saved",
                  !.file = stringify([status |-> 200, chunks |-> store.chunks])])

\* createPlayer: loadCache, then new CachePlayer(cached).
CreatePlayer ==
  /\ store.at = "saved"
  /\ StoreStep([store EXCEPT !.at = "player", !.cached = parse(store.file),
                             !.aborted = FALSE])

\* The body of replay()'s loop from chunk i on, up to where the generator
\* next gives up control: asleep before chunk i, suspended at the yield of
\* chunk i, or returned.
RECURSIVE replayFrom(_, _)
replayFrom(st, i) ==
  IF i > Len(st.cached.chunks) \/ st.aborted THEN [st EXCEPT !.at = "returned"]
  ELSE IF st.cached.chunks[i].delay > 0 THEN [st EXCEPT !.at = "asleep", !.i = i]
  ELSE [st EXCEPT !.at = "yielded", !.i = i,
                  !.out = Append(@, st.cached.chunks[i].data)]

\* The consumer's first next(): the generator body starts.
ReplayFirst ==
  /\ store.at = "player"
  /\ StoreStep(replayFrom([store EXCEPT !.aborted = FALSE], 1))

\* The delay before chunk i is over.
ReplayWake ==
  /\ store.at = "asleep"
  /\ StoreStep(IF store.aborted THEN [store EXCEPT !.at = "returned"]
               ELSE [store EXCEPT !.at = "yielded",
                                  !.out = Append(@, store.cached.chunks[store.i].data)])

\* The consumer's next() after a chunk.
ReplayNext ==
  /\ store.at = "yielded"
  /\ StoreStep(replayFrom(store, store.i + 1))

PlayerAbort ==
  /\ store.at \in {"player", "asleep", "yielded"}
  /\ StoreStep([store EXCEPT !.aborted = TRUE,
                  !.abortedAt = IF @ = -1 THEN Len(store.out) ELSE @])

ServerIdle ==
  /\ mgr = NewManager([cache |-> "read-write", intervene |-> TRUE])
  /\ proxyConfig = [cache |-> "read-write"]
  /\ cacheFiles = [f \in Fps |-> "absent"]
  /\ body = [i \in Ids |-> [fp |-> 1]]
  /\ pc = [i \in Ids |-> "idle"]
  /\ loc = [i \in Ids |-> InitLoc]
  /\ reply = [i \in Ids |-> NoReply]
  /\ client = [i \in Ids |-> "connected"]

StoreInit ==
  /\ ServerIdle
  /\ store = NewStore
  /\ hasher = Unused /\ parser = Unused /\ mock = Unused /\ upstream = Unused
  /\ registry = Unused

StoreNext ==
  \/ RecorderStart
  \/ \E data \in ChunkData, elapsed \in Delays : RecordChunk(data, elapsed)
  \/ RecorderSave
  \/ CreatePlayer
  \/ ReplayFirst
  \/ ReplayWake
  \/ ReplayNext
  \/ PlayerAbort

StoreSpec == StoreInit /\ [][StoreNext]_vars


(***************************************************************************)
(* cache/hasher.ts alone: normalizeBody, hashRequest                       *)
(***************************************************************************)
MaxKeys == 3

\* JSON values: an object is the sequence of its <<key, value>> pairs in
\* insertion order, an array the sequence of its items.
Obj(kv) == [t |-> "obj", kv |-> kv]
Arr(items) == [t |-> "arr", items |-> items]
Val(v) == [t |-> "val", v |-> v]

IgnoredKeys == {"stream", "request_id", "timestamp"}

\* Array.prototype.sort() on the keys in use: code unit order.
KeyOrder == <<"content", "messages", "model", "request_id", "role", "stream",
              "timestamp">>
KeyRank(k) == CHOOSE i \in 1..Len(KeyOrder) : KeyOrder[i] = k

\* Faulty variant: arrays are returned as they are, their items not normalised.
RECURSIVE normalizeBodyShallow(_)
normalizeBodyShallow(b) ==
  IF b.t = "obj"
    THEN LET kept == SelectSeq(b.kv, LAMBDA p : p[1] \notin IgnoredKeys)
             keys == SortSeq(kept, LAMBDA p, q : KeyRank(p[1]) < KeyRank(q[1]))
         IN Obj([i \in 1..Len(keys) |-> <<keys[i][1], normalizeBodyShallow(keys[i][2])>>])
    ELSE b

RECURSIVE normalizeBody(_)
normalizeBody(b) ==
  IF b.t = "arr"
    THEN Arr([i \in 1..Len(b.items) |-> normalizeBody(b.items[i])])
  ELSE IF b.t = "obj"
    THEN LET kept == SelectSeq(b.kv, LAMBDA p : p[1] \notin IgnoredKeys)
             keys == SortSeq(kept, LAMBDA p, q : KeyRank(p[1]) < KeyRank(q[1]))
         IN Obj([i \in 1..Len(keys) |-> <<keys[i][1], normalizeBody(keys[i][2])>>])
  ELSE b

\* JSON.stringify, as the sequence of the text's tokens.
RECURSIVE JSONstringify(_)
RECURSIVE JSONmembers(_)
RECURSIVE JSONitems(_)
JSONstringify(b) ==
  IF b.t = "obj" THEN <<"{">> \o JSONmembers(b.kv) \o <<"}">>
  ELSE IF b.t = "arr" THEN <<"[">> \o JSONitems(b.items) \o <<"]">>
  ELSE <<b.v>>

JSONmembers(kv) ==
  IF kv = <<>> THEN <<>>
  ELSE <<kv[1][1], ":">> \o JSONstringify(kv[1][2])
         \o (IF Len(kv) > 1 THEN <<",">> ELSE <<>>) \o JSONmembers(Tail(kv))

JSONitems(items) ==
  IF items = <<>> THEN <<>>
  ELSE JSONstringify(items[1])
         \o (IF Len(items) > 1 THEN <<",">> ELSE <<>>) \o JSONitems(Tail(items))

\* SHA-256 taken as collision free: the digest stands for the text hashed.
hashRequest(b) == JSONstringify(normalizeBody(b))

\* Request bodies to start from: objects nested in an array in an object.
HashedBodies ==
  {Obj(<<<<"model", Val("gpt")>>,
         <<"messages", Arr(<<Obj(<<<<"role", Val("user")>>, <<"content", Val(c)>>>>)>>)>>>>)
     : c \in {"hi", "yo"}}

IgnoredValues == {Val("true"), Val("false")}

SwapAt(kv, i) == [kv EXCEPT ![i] = kv[i + 1], ![i + 1] = kv[i]]
RemoveAt(kv, i) == SubSeq(kv, 1, i - 1) \o SubSeq(kv, i + 1, Len(kv))
KeysOf(kv) == {kv[i][1] : i \in 1..Len(kv)}

\* The bodies one edit of the given kind away from b, the edit made in any
\* one object of b, at any depth.
RECURSIVE Edits(_, _)
Edits(b, kind) ==
  IF b.t = "arr"
    THEN UNION {{Arr([b.items EXCEPT ![i] = e]) : e \in Edits(b.items[i], kind)}
                 : i \in 1..Len(b.items)}
  ELSE IF b.t = "obj"
    THEN LET kv == b.kv
             ignored == {i \in 1..Len(kv) : kv[i][1] \in IgnoredKeys}
             here ==
               CASE kind = "reorder" -> {Obj(SwapAt(kv, i)) : i \in 1..(Len(kv) - 1)}
                 [] kind = "remove" -> {Obj(RemoveAt(kv, i)) : i \in ignored}
                 [] kind = "insert" ->
                      IF Len(kv) >= MaxKeys THEN {}
                      ELSE {Obj(Append(kv, <<k, v>>)) :
                              k \in IgnoredKeys \ KeysOf(kv), v \in IgnoredValues}
                 [] kind = "change" ->
                      UNION {{Obj([kv EXCEPT ![i][2] = v]) : v \in IgnoredValues}
                              : i \in ignored}
             below ==
               UNION {{Obj([kv EXCEPT ![i][2] = e]) : e \in Edits(kv[i][2], kind)}
                       : i \in 1..Len(kv)}
         IN here \cup below
  ELSE {}

HasherStep(h) == hasher' = h /\ UNCHANGED <<server, store, parser, mock, upstream, registry>>

EditBody(kind) == \E e \in Edits(hasher.b, kind) : HasherStep([hasher EXCEPT !.b = e])

ReorderKeys == EditBody("reorder")
RemoveIgnored == EditBody("remove")
InsertIgnored == EditBody("insert")
ChangeIgnored == EditBody("change")

HasherInit ==
  /\ ServerIdle
  /\ \E a \in HashedBodies : hasher = [a |-> a, b |-> a]
  /\ store = Unused /\ parser = Unused /\ mock = Unused /\ upstream = Unused
  /\ registry = Unused

HasherNext == ReorderKeys \/ RemoveIgnored \/ InsertIgnored \/ ChangeIgnored

HasherSpec == HasherInit /\ [][HasherNext]_vars


(***************************************************************************)
(* The SSE stream parser alone: SSEStreamParser                            *)
(***************************************************************************)
MaxDeltas == 3

\* An optional field of a JSON object: absent, or present with a value.
None == <<>>
Some(v) == <<v>>
OrElse(opt, d) == IF opt = None THEN d ELSE opt[1]

\* new SSEStreamParser().  toolCalls is the Map in insertion order; fed lists
\* the tool-call deltas handed to the parser so far.
NewParser ==
  [toolCalls |-> <<>>, accumulatedContent |-> <<>>, finishReason |-> None,
   usage |-> None, done |-> 0, errors |-> 0, fed |-> <<>>]

ToolCallAt(p, index) == {i \in 1..Len(p.toolCalls) : p.toolCalls[i].index = index}

\* Faulty variant: the opening delta's arguments are dropped.
handleToolCallOpenerEmpty(p, tc) ==
  LET existing == ToolCallAt(p, tc.index)
  IN IF existing = {}
       THEN [p EXCEPT !.toolCalls =
               Append(@, [index |-> tc.index, id |-> OrElse(tc.id, ""),
                          name |-> OrElse(tc.name, ""), arguments |-> <<>>])]
       ELSE IF OrElse(tc.arguments, <<>>) # <<>>
         THEN LET i == CHOOSE i \in existing : TRUE
              IN [p EXCEPT !.toolCalls[i].arguments = @ \o tc.arguments[1]]
         ELSE p

\* One entry of delta.tool_calls.
handleToolCall(p, tc) ==
  LET existing == ToolCallAt(p, tc.index)
  IN IF existing = {}
       THEN [p EXCEPT !.toolCalls =
               Append(@, [index |-> tc.index, id |-> OrElse(tc.id, ""),
                          name |-> OrElse(tc.name, ""),
                          arguments |-> OrElse(tc.arguments, <<>>)])]
       ELSE IF OrElse(tc.arguments, <<>>) # <<>>
         THEN LET i == CHOOSE i \in existing : TRUE
              IN [p EXCEPT !.toolCalls[i].arguments = @ \o tc.arguments[1]]
         ELSE p

RECURSIVE handleToolCalls(_, _)
handleToolCalls(p, tcs) ==
  IF tcs = <<>> THEN p ELSE handleToolCalls(handleToolCall(p, Head(tcs)), Tail(tcs))

\* One entry of chunk.choices.
handleChoice(p, choice) ==
  LET p1 == IF OrElse(choice.delta.content, <<>>) # <<>>
              THEN [p EXCEPT !.accumulatedContent = @ \o choice.delta.content[1]]
              ELSE p
      p2 == handleToolCalls(p1, OrElse(choice.delta.tool_calls, <<>>))
  IN IF choice.finish_reason # None /\ p2.finishReason = None
       THEN [p2 EXCEPT !.finishReason = choice.finish_reason]
       ELSE p2

RECURSIVE handleChoices(_, _)
handleChoices(p, choices) ==
  IF choices = <<>> THEN p ELSE handleChoices(handleChoice(p, Head(choices)), Tail(choices))

\* An event's data: the sentinel, the text of a chunk, or text that does not
\* parse.
Sentinel == [kind |-> "[DONE]"]
Malformed == [kind |-> "malformed"]
ChunkEvent(chunk) == [kind |-> "chunk", chunk |-> chunk]

handleEvent(p, data) ==
  CASE data.kind = "[DONE]" -> [p EXCEPT !.done = @ + 1]
    [] data.kind = "malformed" -> [p EXCEPT !.errors = @ + 1]
    [] data.kind = "chunk" ->
         LET p1 == handleChoices(p, data.chunk.choices)
         IN IF data.chunk.usage # None /\ p1.usage = None
              THEN [p1 EXCEPT !.usage = data.chunk.usage]
              ELSE p1

getToolCalls(p) == p.toolCalls
getContent(p) == p.accumulatedContent
getFinishReason(p) == p.finishReason

\* The tool-call deltas a stream may carry: any index, with or without id,
\* name and arguments.
ToolCallDeltas ==
  [index : {0, 1}, id : {None, Some("call_a")}, name : {None, Some("f")},
   arguments : {None, Some(<<"x">>), Some(<<"y">>)}]

ToolCallChunk(tc) ==
  ChunkEvent([choices |-> <<[delta |-> [content |-> None, tool_calls |-> Some(<<tc>>)],
                             finish_reason |-> None]>>,
              usage |-> None])

ParserStep(p) == parser' = p /\ UNCHANGED <<server, store, hasher, mock, upstream, registry>>

FeedToolCall(tc) ==
  /\ Len(parser.fed) + parser.errors < MaxDeltas
  /\ ParserStep([handleEvent(parser, ToolCallChunk(tc)) EXCEPT !.fed = Append(@, tc)])

FeedMalformed ==
  /\ Len(parser.fed) + parser.errors < MaxDeltas
  /\ ParserStep(handleEvent(parser, Malformed))

ParserInit ==
  /\ ServerIdle
  /\ parser = NewParser
  /\ store = Unused /\ hasher = Unused /\ mock = Unused /\ upstream = Unused
  /\ registry = Unused

ParserNext ==
  \/ \E tc \in ToolCallDeltas : FeedToolCall(tc)
  \/ FeedMalformed

ParserSpec == ParserInit /\ [][ParserNext]_vars


(***************************************************************************)
(* The mock generator alone, its stream fed to the SSE parser              *)
(***************************************************************************)
MaxContentLen == 5
ChunkSize == 4

\* The characters of a mock content: a letter, one JSON escapes, white space.
Chars == {"a", "\"", " "}

RECURSIVE Strings(_)
Strings(n) ==
  IF n = 0 THEN {<<>>}
  ELSE LET shorter == Strings(n - 1)
       IN shorter \cup {Append(str, ch) : str \in shorter, ch \in Chars}

RECURSIVE trimStart(_)
trimStart(str) ==
  IF str # <<>> /\ Head(str) = " " THEN trimStart(Tail(str)) ELSE str

RECURSIVE trimEnd(_)
trimEnd(str) ==
  IF str # <<>> /\ str[Len(str)] = " " THEN trimEnd(SubSeq(str, 1, Len(str) - 1)) ELSE str

trim(str) == trimEnd(trimStart(str))

\* No content over Chars starts with ERROR: or is a JSON object, so each is a
\* text mock.
parseMockContent(content) == [type |-> "text", content |-> trim(content)]

\* Faulty variant: a last token shorter than the chunk size is left out.
RECURSIVE splitIntoTokensFull(_)
splitIntoTokensFull(content) ==
  IF Len(content) < ChunkSize THEN <<>>
  ELSE <<SubSeq(content, 1, ChunkSize)>>
         \o splitIntoTokensFull(SubSeq(content, ChunkSize + 1, Len(content)))

RECURSIVE splitIntoTokens(_)
splitIntoTokens(content) ==
  IF content = <<>> THEN <<>>
  ELSE IF Len(content) <= ChunkSize THEN <<content>>
  ELSE <<SubSeq(content, 1, ChunkSize)>>
         \o splitIntoTokens(SubSeq(content, ChunkSize + 1, Len(content)))

\* JSON.stringify of a chunk with one choice: the text keeps the delta's
\* fields, its strings escaped.
chunkText(role, content, finishReason) ==
  [kind |-> "json", role |-> role,
   content |-> IF content = None THEN None ELSE Some(escape(content[1])),
   finish_reason |-> finishReason]

createChunk(content, finishReason) == chunkText(None, content, finishReason)

createSSEFrame(data) == [field |-> "data", value |-> data]

generateMockTextStream(content) ==
  LET tokens == splitIntoTokens(content)
  IN <<createSSEFrame(chunkText(Some("assistant"), Some(<<>>), None))>>
       \o [i \in 1..Len(tokens) |-> createSSEFrame(createChunk(Some(tokens[i]), None))]
       \o <<createSSEFrame(createChunk(None, Some("stop")))>>
       \o <<createSSEFrame(Sentinel)>>

\* JSON.parse of a chunk's text.
parseChunk(text) ==
  [choices |-> <<[delta |-> [role |-> text.role,
                             content |-> IF text.content = None THEN None
                                         ELSE Some(unescape(text.content[1])),
                             tool_calls |-> None],
                  finish_reason |-> text.finish_reason]>>,
   usage |-> None]

\* feed: the event parser hands the frame's data to handleEvent.
feed(p, frame) ==
  handleEvent(p, IF frame.value.kind = "[DONE]" THEN Sentinel
                 ELSE ChunkEvent(parseChunk(frame.value)))

MockStep(m, p) ==
  mock' = m /\ parser' = p /\ UNCHANGED <<server, store, hasher, upstream, registry>>

MockGenerate ==
  /\ mock.at = "new"
  /\ MockStep([mock EXCEPT !.at = "streaming",
                 !.frames = generateMockTextStream(parseMockContent(mock.content).content)],
              parser)

MockFeed ==
  /\ mock.at = "streaming"
  /\ LET n == mock.fed + 1
     IN MockStep([mock EXCEPT !.fed = n,
                              !.at = IF n = Len(mock.frames) THEN "ended" ELSE @],
                 feed(parser, mock.frames[n]))

MockInit ==
  /\ ServerIdle
  /\ \E content \in Strings(MaxContentLen) :
       mock = [content |-> content, at |-> "new", frames |-> <<>>, fed |-> 0]
  /\ parser = NewParser
  /\ store = Unused /\ hasher = Unused /\ upstream = Unused /\ registry = Unused

MockNext == MockGenerate \/ MockFeed

MockSpec == MockInit /\ [][MockNext]_vars


(***************************************************************************)
(* getFromLLM alone: the body prepared for upstream and sent               *)
(***************************************************************************)
\* obj[key] of a JSON object: None where the key is absent.
Get(kv, key) ==
  IF key \in KeysOf(kv)
    THEN Some(kv[CHOOSE i \in 1..Len(kv) : kv[i][1] = key][2])
    ELSE None

\* {...obj, key: value}
Spread(kv, key, value) ==
  IF key \in KeysOf(kv)
    THEN [i \in 1..Len(kv) |-> IF kv[i][1] = key THEN <<key, value>> ELSE kv[i]]
    ELSE Append(kv, <<key, value>>)

IsObject(opt) == opt # None /\ opt[1].t = "obj"

\* Faulty variant: the caller's stream_options are replaced, not merged.
bodyWithUsageReplaced(b) ==
  IF Get(b.kv, "stream") = Some(Val("true"))
    THEN Obj(Spread(b.kv, "stream_options", Obj(<<<<"include_usage", Val("true")>>>>)))
    ELSE b

bodyWithUsage(b) ==
  IF Get(b.kv, "stream") = Some(Val("true"))
    THEN LET given == Get(b.kv, "stream_options")
             options == IF IsObject(given) THEN given[1].kv ELSE <<>>
         IN Obj(Spread(b.kv, "stream_options",
                       Obj(Spread(options, "include_usage", Val("true")))))
    ELSE b

\* sendUpstream: the Accept header follows the body's stream flag (true when
\* it is not a boolean); the body goes out as it was handed in.
sendUpstream(b) ==
  [accept |-> IF Get(b.kv, "stream") = Some(Val("false"))
                THEN "application/json" ELSE "text/event-stream",
   body |-> b]

\* Request bodies: stream absent, true or false; stream_options absent, null
\* or an object with or without include_usage and another option.
UpstreamBodies ==
  LET streams == {<<>>, <<<<"stream", Val("true")>>>>, <<<<"stream", Val("false")>>>>}
      usages == {<<>>, <<<<"include_usage", Val("true")>>>>,
                 <<<<"include_usage", Val("false")>>>>}
      foos == {<<>>, <<<<"foo", Val("1")>>>>}
      options == {<<>>, <<<<"stream_options", Val("null")>>>>}
                   \cup {<<<<"stream_options", Obj(f \o u)>>>> : f \in foos, u \in usages}
      others == {<<>>, <<<<"temperature", Val("0")>>>>}
  IN {Obj(<<<<"model", Val("gpt")>>>> \o st \o o \o t) :
        st \in streams, o \in options, t \in others}

UpstreamStep(u) == upstream' = u /\ UNCHANGED <<server, store, hasher, parser, mock, registry>>

PrepareBody ==
  /\ upstream.at = "called"
  /\ UpstreamStep([upstream EXCEPT !.at = "prepared",
                     !.bodyWithUsage = bodyWithUsage(upstream.body)])

SendUpstream ==
  /\ upstream.at = "prepared"
  /\ UpstreamStep([upstream EXCEPT !.at = "sent",
                     !.sent = sendUpstream(upstream.bodyWithUsage)])

UpstreamInit ==
  /\ ServerIdle
  /\ \E b \in UpstreamBodies :
       upstream = [at |-> "called", body |-> b, bodyWithUsage |-> Val("undefined"),
                   sent |-> [accept |-> "", body |-> Val("undefined")]]
  /\ store = Unused /\ hasher = Unused /\ parser = Unused /\ mock = Unused
  /\ registry = Unused

UpstreamNext == PrepareBody \/ SendUpstream

UpstreamSpec == UpstreamInit /\ [][UpstreamNext]_vars


(***************************************************************************)
(* Claims                                                                  *)
(***************************************************************************)
Session(id) == mgr.sessions[id]

Suspended1(id) ==
  Len(mgr.promises1[id]) > 0 /\ ~mgr.promises1[id][Len(mgr.promises1[id])].settled
Suspended2(id) ==
  Len(mgr.promises2[id]) > 0 /\ ~mgr.promises2[id][Len(mgr.promises2[id])].settled

Resolved1(id) == Len(mgr.promises1[id]) > 0 /\ mgr.promises1[id][1].settled
Resolved2(id) == Len(mgr.promises2[id]) > 0 /\ mgr.promises2[id][1].settled

\* The reply carries a buffered response (not the 404 or the 500 of an error path).
Buffered(r) == r.sent /\ r.content.from \in {"upstream", "upstream-error", "mock"}

----------------------------------------------------------------------------
\* C1: while intervene is true the engine suspends at point 1 and, once the
\* response is buffered, at point 2; nothing (status, header, body) is written
\* to the client before point 1 is resolved, nor while the task waits at
\* point 2 with the buffer complete.
C1_Silent ==
  \A id \in Ids :
    pc[id] \in {"idle", "cacheExists", "point1", "acquire", "save", "point2"}
      => ~reply[id].sent

C1_Suspends ==
  \A id \in Ids :
    mgr.settings.intervene =>
      /\ (pc[id] \in {"idle", "cacheExists"} /\ pc'[id] \notin {"idle", "cacheExists"})
           => (pc'[id] = "point1" /\ ~reply'[id].sent)
      /\ (pc[id] \in {"acquire", "save"} /\ pc'[id] \notin {"acquire", "save"})
           => \/ pc'[id] = "point2" /\ ~reply'[id].sent
              \/ pc'[id] = "done" /\ ~Buffered(reply'[id])

C1_NoBytesBeforeDecision == [] C1_Silent /\ [][C1_Suspends]_vars

C1_Witness ==
  /\ mgr.settings.intervene
  /\ pc[1] = "point2" /\ Resolved1(1) /\ Suspended2(1)
  /\ loc[1].responseData.present /\ ~reply[1].sent

----------------------------------------------------------------------------
\* C2: once a lifecycle task has ended (normal emission, cache-only 404 or
\* error path), the last request_update emitted for its id carries state
\* complete, and no request_update for that id is emitted afterwards.
Ended(id) == pc[id] \in {"done", "rejected"}

C2_LastIsComplete ==
  \A id \in Ids : Ended(id) => mgr.emitted[id].last = "complete"

C2_NothingAfter ==
  \A id \in Ids : Ended(id) => mgr'.emitted[id] = mgr.emitted[id]

C2_CompleteIsLastEvent == [] C2_LastIsComplete /\ [][C2_NothingAfter]_vars

C2_Witness ==
  /\ pc[1] = "done" /\ reply[1].status = 404 /\ mgr.emitted[1].last = "complete"
  /\ pc[2] = "point2" /\ mgr.emitted[2].last = "reviewing"

----------------------------------------------------------------------------
\* C3: once a session's state is complete, no later broker operation, in any
\* order, makes it anything other than complete.
C3_CompleteIsFinal ==
  [][\A id \in Ids :
       (Has(mgr, id) /\ Session(id).state = "complete")
         => (Has(mgr', id) /\ mgr'.sessions[id].state = "complete")]_vars

----------------------------------------------------------------------------
\* C4: with an operator who resolves every pending decision point and with
\* upstream calls, cache reads and mock generation that terminate, every
\* session created by POST /v1/chat/completions eventually is complete.
C4_EverySessionCompletes ==
  \A id \in Ids :
    (pc[id] # "idle") ~> (Has(mgr, id) /\ Session(id).state = "complete")

C4_Witness ==
  /\ pc[1] = "done" /\ Session(1).state = "complete"
  /\ Resolved1(1) /\ Resolved2(1) /\ Buffered(reply[1])

----------------------------------------------------------------------------
\* C5: a session suspended at point 1 or 2 never blocks another one: the
\* other can be created, run its own steps and be resolved at its own points;
\* and resolving a point of session a leaves session b, its awaiters and its
\* task as they were.
ResolveOf(a) ==
  \/ \E act \in Point1Actions : point1Action(a, act)
  \/ \E act \in Point2Actions : point2Action(a, act)

BrokerView(m, b) ==
  <<IF Has(m, b) THEN <<m.sessions[b]>> ELSE <<>>,
    m.point1Resolvers[b], m.point2Resolvers[b],
    m.promises1[b], m.promises2[b], m.emitted[b]>>

CanProceed(b) ==
  CASE pc[b] = "idle" ->
         (\A j \in Ids : j < b => pc[j] # "idle") => ENABLED Begin(b, [fp |-> 1])
    [] pc[b] = "cacheExists" -> ENABLED CacheChecked(b)
    [] pc[b] = "acquire" ->
         ENABLED (AcquireLLM(b) \/ AcquireCache(b) \/ AcquireMock(b))
    [] pc[b] = "save" -> ENABLED Save(b)
    [] pc[b] = "point1" ->
         IF Resolved1(b) THEN ENABLED Resume1(b)
         ELSE \A act \in Point1Actions : resolvePoint1(mgr, b, act).ok
    [] pc[b] = "point2" ->
         IF Resolved2(b) THEN ENABLED Resume2(b)
         ELSE \A act \in Point2Actions : resolvePoint2(mgr, b, act).ok
    [] OTHER -> pc[b] = "done"

C5_NotBlocked ==
  \A a \in Ids, b \in Ids :
    (a # b /\ pc[a] \in {"point1", "point2"}) => CanProceed(b)

C5_Isolated ==
  \A a \in Ids, b \in Ids :
    (a # b /\ mgr' # mgr /\ ResolveOf(a))
      => /\ BrokerView(mgr', b) = BrokerView(mgr, b)
         /\ pc'[b] = pc[b] /\ loc'[b] = loc[b] /\ reply'[b] = reply[b]

C5_SessionsIndependent == [] C5_NotBlocked /\ [][C5_Isolated]_vars

C5_Witness ==
  /\ pc[1] = "point1" /\ Suspended1(1) /\ Session(1).state = "pending"
  /\ pc[2] = "done" /\ Resolved1(2) /\ Resolved2(2)
  /\ Session(2).state = "complete"

----------------------------------------------------------------------------
\* C6: when resolvePoint1(id, action) finds a pending awaiter, the session is
\* set to processing and the request_update for it is emitted before the
\* awaiting task resumes, and the task then receives exactly that action,
\* mock content included.
C6_ResolveStep ==
  \A id \in Ids, a \in Point1Actions :
    (mgr.point1Resolvers[id] # 0 /\ point1Action(id, a))
      => /\ mgr'.sessions[id].state = "processing"
         /\ mgr'.emitted[id] = [n |-> mgr.emitted[id].n + 1, last |-> "processing"]
         /\ pc'[id] = "point1"
         /\ mgr'.promises1[id][1] = Settled(a)

C6_BeforeResume ==
  \A id \in Ids :
    (pc[id] = "point1" /\ Resolved1(id))
      => /\ Session(id).state = "processing"
         /\ mgr.emitted[id].last = "processing"

C6_ResumeStep ==
  \A id \in Ids :
    (pc[id] = "point1" /\ pc'[id] = "acquire")
      => LET a == mgr.promises1[id][1].value
         IN /\ loc'[id].responseSource = a.action
            /\ a.action = "mock" => loc'[id].mockContent = a.content

C6_TransitionBeforeResume ==
  [] C6_BeforeResume /\ [][C6_ResolveStep /\ C6_ResumeStep]_vars

C6_Witness ==
  /\ pc[1] = "acquire" /\ Resolved1(1)
  /\ mgr.promises1[1][1].value = [action |-> "mock", content |-> "hello"]
  /\ loc[1].mockContent = "hello"
  /\ Session(1).state = "processing"

----------------------------------------------------------------------------
\* C7: resolvePoint1 / resolvePoint2 (and point1Action / point2Action) for an
\* id with no pending awaiter at that point (unknown id, point not reached,
\* point already resolved) return false and leave the manager (every session,
\* resolver and promise) unchanged, emitting nothing.
C7_NoAwaiterNoEffect ==
  \A id \in Ids :
    /\ ~Suspended1(id) =>
         \A a \in Point1Actions : resolvePoint1(mgr, id, a) = [m |-> mgr, ok |-> FALSE]
    /\ ~Suspended2(id) =>
         \A a \in Point2Actions : resolvePoint2(mgr, id, a) = [m |-> mgr, ok |-> FALSE]

C7_Witness ==
  /\ pc[1] = "acquire" /\ Resolved1(1) /\ Len(mgr.promises2[1]) = 0
  /\ pc[2] = "idle" /\ ~Has(mgr, 2)

----------------------------------------------------------------------------
\* C8: at most one awaiter per session per point: a second waitForPointN
\* while the first is pending does not replace or orphan the first awaiter.
Unsettled(ps) == {k \in 1..Len(ps) : ~ps[k].settled}

C8_OneAwaiterPerPoint ==
  \A id \in Ids :
    /\ Unsettled(mgr.promises1[id]) \subseteq {mgr.point1Resolvers[id]}
    /\ Unsettled(mgr.promises2[id]) \subseteq {mgr.point2Resolvers[id]}

----------------------------------------------------------------------------
\* C9: a request follows one snapshot of intervene: it is suspended at
\* point 1 exactly if its session was created pending, and suspended at
\* point 2 exactly if it was suspended at point 1.
C9_OneSnapshot ==
  \A id \in Ids :
    /\ (pc[id] = "point1" /\ ~Resolved1(id)) => Session(id).state = "pending"
    /\ (pc[id] = "acquire" /\ Len(mgr.promises1[id]) = 0)
         => Session(id).state = "processing"
    /\ pc[id] = "point2" => Len(mgr.promises1[id]) > 0
    /\ (pc[id] = "done" /\ Buffered(reply[id]))
         => (Len(mgr.promises1[id]) > 0 <=> Len(mgr.promises2[id]) > 0)

----------------------------------------------------------------------------
\* C10: a request that begins after the operator changed the cache setting
\* is handled under the new mode: lookup, cache-only 404 and cache write all
\* follow the setting in force when the request begins.
C10_FollowsCacheSetting ==
  [][\A id \in Ids :
       (pc[id] = "idle" /\ pc'[id] # "idle")
         => /\ loc'[id].shouldReadCache = (mgr.settings.cache # "off")
            /\ loc'[id].cacheOnly = (mgr.settings.cache = "read")
            /\ loc'[id].shouldWriteCache = (mgr.settings.cache = "read-write")]_vars

----------------------------------------------------------------------------
\* C11: with intervene false the engine does not suspend at either point, and
\* it takes the cache path exactly when the cache mode is not off and a file
\* for the request's fingerprint exists; otherwise it takes the llm case.
\* Bytes acquired on the cache path, and only those, carry the cached mark.
Cached(r) == Buffered(r) /\ "x-playingpack-cached" \in r.headers
Mocked(r) == Buffered(r) /\ "x-playingpack-mocked" \in r.headers

C11_Select ==
  \A id \in Ids :
    (/\ ~mgr.settings.intervene
     /\ pc[id] \in {"idle", "cacheExists"}
     /\ pc'[id] \notin {"idle", "cacheExists"})
      => LET hit == /\ proxyConfig.cache # "off"
                    /\ cacheFiles[body'[id].fp] # "absent"
         IN /\ pc'[id] # "point1"
            /\ hit => (pc'[id] = "acquire" /\ loc'[id].responseSource = "cache")
            /\ ~hit => \/ pc'[id] = "acquire" /\ loc'[id].responseSource = "llm"
                       \/ pc'[id] = "done" /\ reply'[id].status = 404

C11_Acquire ==
  \A id \in Ids :
    (/\ ~mgr.settings.intervene
     /\ pc[id] \in {"acquire", "save"}
     /\ pc'[id] \notin {"acquire", "save"})
      => /\ pc'[id] = "done"
         /\ Buffered(reply'[id])
              => (Cached(reply'[id]) <=> loc[id].responseSource = "cache")

----------------------------------------------------------------------------
\* C12 (as claimed): with cache = read and no cached entry for its
\* fingerprint, a request is answered 404 cache_not_found and its session
\* ends complete with the error field set.
CacheNotFound(id) ==
  /\ reply[id].sent /\ reply[id].status = 404
  /\ reply[id].content.from = "cache_not_found"
  /\ Session(id).state = "complete" /\ Session(id).error # "unset"

ReadOnlyMiss(id) ==
  /\ pc[id] = "done"
  /\ proxyConfig.cache = "read"
  /\ cacheFiles[body[id].fp] = "absent"

LLMSelected(id) ==
  Len(mgr.promises1[id]) = 0 \/ mgr.promises1[id][1].value.action = "llm"

C12_NotFound ==
  \A id \in Ids : (ReadOnlyMiss(id) /\ LLMSelected(id)) => CacheNotFound(id)

C12_NoUpstream ==
  \A id \in Ids :
    (pc[id] \in {"acquire", "save"} /\ loc[id].responseSource = "llm")
      => ~loc[id].cacheOnly

C12_NoWrite == proxyConfig.cache = "read" => cacheFiles' = cacheFiles

----------------------------------------------------------------------------
\* C13: when acquiring the response throws (upstream network failure, cache
\* chosen at point 1 with no entry, cache file that does not load), the client
\* gets one response, 500 proxy_error, nothing of a buffered body, and the
\* session ends complete with its error field set.
ProxyError(r, s) ==
  /\ r.sent /\ r.status = 500 /\ r.content.from = "proxy_error"
  /\ s.state = "complete" /\ s.error # "unset"

ThrowMessages ==
  {"fetch failed", "Cache requested but no cached response available",
   "Failed to load cached response"}

C13_Errored ==
  \A id \in Ids :
    (Has(mgr, id) /\ Session(id).error \in ThrowMessages)
      => (pc[id] = "done" /\ ProxyError(reply[id], Session(id)))

C13_Throws ==
  \A id \in Ids :
    /\ (/\ pc[id] = "point1" /\ pc'[id] # "point1"
        /\ mgr.promises1[id][1].value.action = "cache" /\ ~loc[id].hasCache)
         => ProxyError(reply'[id], mgr'.sessions[id])
    /\ (/\ pc[id] = "acquire" /\ pc'[id] # "acquire"
        /\ loc[id].responseSource = "cache" /\ cacheFiles[body[id].fp] # "ok")
         => ProxyError(reply'[id], mgr'.sessions[id])
    /\ (/\ pc[id] = "acquire" /\ pc'[id] = "done"
        /\ loc[id].responseSource = "llm" /\ ~Buffered(reply'[id]))
         => ProxyError(reply'[id], mgr'.sessions[id])

C13_OneResponse ==
  \A id \in Ids : reply[id].sent => reply'[id] = reply[id]

C13_ThrowGives500 == [] C13_Errored /\ [][C13_Throws /\ C13_OneResponse]_vars

C13_Witness ==
  /\ pc[1] = "done" /\ ProxyError(reply[1], Session(1))
  /\ Session(1).error = "Cache requested but no cached response available"
  /\ pc[2] = "done" /\ ProxyError(reply[2], Session(2))
  /\ Session(2).error = "fetch failed"

----------------------------------------------------------------------------
\* C14: when point 2 is resolved with {modify, content}, whatever the content
\* string and whatever was acquired, the client receives the mock generator's
\* output for that content, marked x-playingpack-mocked.
C14_ModifyReplaces ==
  [][\A id \in Ids :
       (/\ pc[id] = "point2" /\ pc'[id] = "done"
        /\ mgr.promises2[id][1].value.action = "modify")
         => /\ reply'[id].sent
            /\ reply'[id].content = MockBytes(mgr.promises2[id][1].value.content)
            /\ "x-playingpack-mocked" \in reply'[id].headers]_vars

----------------------------------------------------------------------------
\* C15: when a session completes after a response was emitted, its
\* response_source is cache exactly when x-playingpack-cached was sent and
\* mock exactly when x-playingpack-mocked was sent.
C15_SourceMatchesHeaders ==
  \A id \in Ids :
    (pc[id] = "done" /\ Buffered(reply[id]))
      => /\ Session(id).responseSource = "cache" <=> Cached(reply[id])
         /\ Session(id).responseSource = "mock" <=> Mocked(reply[id])

----------------------------------------------------------------------------
\* C16: when point 1 is resolved with {mock, content}, the request never
\* reaches getFromLLM or getFromCache and its steps leave the cache files
\* alone; once point 2 is resolved with return (or skipped) the client has
\* the mock output for that content and response_source is mock.
MockChosen(id) ==
  Resolved1(id) /\ mgr.promises1[id][1].value.action = "mock"

C16_MockPathOnly ==
  \A id \in Ids :
    MockChosen(id) =>
      /\ pc[id] # "save"
      /\ pc[id] = "acquire" => loc[id].responseSource = "mock"
      /\ (/\ pc[id] = "done"
          /\ Len(mgr.promises2[id]) > 0 => mgr.promises2[id][1].value.action = "return")
           => /\ reply[id].sent /\ reply[id].status = 200
              /\ reply[id].content = MockBytes(mgr.promises1[id][1].value.content)
              /\ reply[id].headers = {"x-playingpack-mocked"}
              /\ Session(id).responseSource = "mock"

C16_CacheUntouched ==
  \A id \in Ids :
    (MockChosen(id) /\ pc'[id] # pc[id]) => cacheFiles' = cacheFiles

C16_MockAtPoint1 == [] C16_MockPathOnly /\ [][C16_CacheUntouched]_vars

C16_Witness ==
  /\ pc[1] = "done" /\ MockChosen(1)
  /\ Resolved2(1) /\ mgr.promises2[1][1].value.action = "return"
  /\ reply[1].content = MockBytes("hello")
  /\ proxyConfig.cache = "read-write" /\ cacheFiles[body[1].fp] = "absent"

----------------------------------------------------------------------------
\* C17: when upstream answers with a non-2xx status, its body is forwarded
\* with that status, and the completed session records that status as its
\* response status.
C17_ErrorStatusRecorded ==
  \A id \in Ids :
    (pc[id] = "done" /\ reply[id].sent /\ reply[id].content = ErrorBytes)
      => /\ reply[id].status = 429
         /\ Session(id).response.present
         /\ Session(id).response.status = reply[id].status

----------------------------------------------------------------------------
\* A completed request that went through getFromLLM with an OK answer while
\* the cache mode was read-write: it saved a record for its fingerprint.
Saved(id) ==
  /\ pc[id] = "done" /\ proxyConfig.cache = "read-write"
  /\ Session(id).responseSource = "llm"
  /\ Session(id).response.present /\ Session(id).response.finishReason = "stop"

\* C18: with cache = read-write and intervene = false, once a request has
\* completed through the llm path with an OK answer, a loadable cache entry
\* for its fingerprint exists, and a request with the same fingerprint that
\* checks the cache afterwards is served from it, marked
\* x-playingpack-cached, without going to upstream.
C18_EntryExists ==
  \A id \in Ids :
    (Saved(id) /\ Len(mgr.promises1[id]) = 0 /\ Len(mgr.promises2[id]) = 0)
      => cacheFiles[body[id].fp] = "ok"

C18_ServedFromCache ==
  \A i \in Ids, j \in Ids :
    (/\ i # j /\ Saved(i) /\ Len(mgr.promises1[i]) = 0
     /\ body[j].fp = body[i].fp /\ ~mgr.settings.intervene)
      => /\ (pc[j] = "cacheExists" /\ pc'[j] # "cacheExists")
              => (pc'[j] = "acquire" /\ loc'[j].responseSource = "cache")
         /\ (pc[j] = "acquire" /\ pc'[j] # "acquire" /\ loc[j].hasCache)
              => (pc'[j] = "done" /\ Cached(reply'[j]))

C18_RecordThenReplay == [] C18_EntryExists /\ [][C18_ServedFromCache]_vars

----------------------------------------------------------------------------
\* C19: a save is all-or-nothing: whenever the file at <fingerprint>.json
\* changes, what the path then holds is a complete record (or nothing);
\* a reader never finds a partial file there.
C19_AtomicSave ==
  [][\A fp \in Fps :
       cacheFiles'[fp] # cacheFiles[fp] => cacheFiles'[fp] \in {"absent", "ok"}]_vars

----------------------------------------------------------------------------
\* C20: when two requests with the same fingerprint have both saved, the
\* file at <fingerprint>.json is one of the two complete records, never a
\* mixture; and a save changes no file but the one of its own fingerprint.
C20_OneOfTheTwo ==
  \A a \in Ids, b \in Ids :
    (a # b /\ Saved(a) /\ Saved(b) /\ body[a].fp = body[b].fp)
      => cacheFiles[body[a].fp] = "ok"

C20_OwnFileOnly ==
  \A fp \in Fps :
    cacheFiles'[fp] # cacheFiles[fp]
      => \E id \in Ids : pc'[id] # pc[id] /\ body[id].fp = fp

C20_ConcurrentSaves == [] C20_OneOfTheTwo /\ [][C20_OwnFileOnly]_vars

----------------------------------------------------------------------------
\* C21: a cache file that exists but does not parse is treated as a miss: the
\* request whose cache file does not load goes on as if no entry existed (the
\* llm path, or the cache-only 404 when cache = read); it is not failed.
C21_CorruptIsMiss ==
  [][\A id \in Ids :
       (/\ pc[id] = "acquire" /\ loc[id].responseSource = "cache"
        /\ cacheFiles[body[id].fp] # "ok"
        /\ <<pc'[id], loc'[id]>> # <<pc[id], loc[id]>>)
         => \/ pc'[id] = "acquire" /\ loc'[id].responseSource = "llm"
            \/ pc'[id] = "done" /\ reply'[id].status = 404]_vars

----------------------------------------------------------------------------
RECURSIVE Concat(_)
Concat(strs) == IF strs = <<>> THEN <<>> ELSE Head(strs) \o Concat(Tail(strs))

\* C22: a replay that was never aborted and has returned has yielded exactly
\* the chunk data given to recordChunk, in the same order, so the replayed
\* bytes equal the recorded bytes.
C22_RoundTrip ==
  (store.at = "returned" /\ store.abortedAt = -1)
    => /\ store.out = store.given
       /\ Concat(store.out) = Concat(store.given)

C22_Witness ==
  /\ store.at = "returned" /\ store.abortedAt = -1
  /\ Len(store.given) = 2
  /\ \E i \in 1..2 : store.given[i] = <<"\\", "a">>
  /\ store.cached.chunks[2].delay > 0

\* C23: once abort() has been called, the timed replay yields at most one
\* further chunk, whenever the call came.
C23_StopsWithinOneChunk ==
  store.abortedAt # -1 => Len(store.out) <= store.abortedAt + 1

----------------------------------------------------------------------------
\* C24: two bodies that differ only in the order of keys and in the presence
\* or value of stream, request_id and timestamp, at any depth, have the same
\* hash.
C24_SameHash == hashRequest(hasher.a) = hashRequest(hasher.b)

\* The message inside the array has its keys the other way round and carries
\* a timestamp; the top level carries a stream flag.
C24_Witness ==
  LET msg == hasher.b.kv[CHOOSE i \in 1..Len(hasher.b.kv) :
                           hasher.b.kv[i][1] = "messages"][2].items[1]
  IN /\ "stream" \in KeysOf(hasher.b.kv)
     /\ msg.kv[1][1] = "timestamp" /\ msg.kv[2][1] = "content"

----------------------------------------------------------------------------
\* The deltas fed for an index, in arrival order.
FedFor(index) == SelectSeq(parser.fed, LAMBDA tc : tc.index = index)

RECURSIVE Fragments(_)
Fragments(tcs) ==
  IF tcs = <<>> THEN <<>> ELSE OrElse(Head(tcs).arguments, <<>>) \o Fragments(Tail(tcs))

\* C25: every index fed has exactly one tool call; its arguments are the
\* fragments fed for the index in arrival order, the opener's included, and its
\* id and name are the opener's ("" where the opener has none).
C25_ArgumentsConcatenate ==
  \A index \in {0, 1} :
    LET for == FedFor(index)
        at == ToolCallAt(parser, index)
    IN IF for = <<>> THEN at = {}
       ELSE /\ Cardinality(at) = 1
            /\ \A i \in at :
                 /\ parser.toolCalls[i].arguments = Fragments(for)
                 /\ parser.toolCalls[i].id = OrElse(for[1].id, "")
                 /\ parser.toolCalls[i].name = OrElse(for[1].name, "")

\* An opener with arguments, a delta with neither id nor name nor arguments,
\* then a further fragment, with a payload that does not parse in between.
C25_Witness ==
  /\ parser.errors > 0
  /\ \E index \in {0, 1} :
       LET for == FedFor(index)
       IN /\ Len(for) = 2
          /\ for[1].id # None /\ for[1].arguments = Some(<<"x">>)
          /\ for[2].id = None /\ for[2].name = None /\ for[2].arguments = Some(<<"y">>)
          /\ \E i \in ToolCallAt(parser, index) : parser.toolCalls[i].arguments = <<"x", "y">>

\* C26: the tool-call list is in ascending order of index.
C26_AscendingIndex ==
  \A i, j \in 1..Len(getToolCalls(parser)) :
    i < j => getToolCalls(parser)[i].index < getToolCalls(parser)[j].index

----------------------------------------------------------------------------
\* The chunk a frame carries.
FrameChunk(i) == parseChunk(mock.frames[i].value).choices[1]

\* C27: the streaming text mock is a role chunk with empty content, content
\* chunks of at most four characters that concatenate to the trimmed content,
\* a chunk with finish reason stop, and [DONE] last; the parser fed the whole
\* stream holds that content and finish reason stop.
C27_Stream ==
  mock.at # "new" =>
    LET n == Len(mock.frames)
        tokens == [i \in 1..(n - 3) |-> FrameChunk(i + 1).delta.content[1]]
    IN /\ n >= 3
       /\ \A i \in 1..n : mock.frames[i].field = "data"
       /\ FrameChunk(1).delta.role = Some("assistant")
       /\ FrameChunk(1).delta.content = Some(<<>>)
       /\ FrameChunk(1).finish_reason = None
       /\ \A i \in 2..(n - 2) :
            /\ FrameChunk(i).delta.content # None
            /\ Len(FrameChunk(i).delta.content[1]) \in 1..4
            /\ FrameChunk(i).finish_reason = None
       /\ Concat(tokens) = trim(mock.content)
       /\ FrameChunk(n - 1).delta.content = None
       /\ FrameChunk(n - 1).finish_reason = Some("stop")
       /\ mock.frames[n].value.kind = "[DONE]"

C27_Parsed ==
  mock.at = "ended" =>
    /\ getContent(parser) = trim(mock.content)
    /\ getFinishReason(parser) = Some("stop")
    /\ parser.done = 1 /\ parser.errors = 0 /\ getToolCalls(parser) = <<>>

C27_MockTextStream == C27_Stream /\ C27_Parsed

\* A content of five characters after trimming, one of them escaped in JSON:
\* two content chunks.
C27_Witness ==
  /\ mock.at = "ended"
  /\ Len(mock.content) = 5 /\ trim(mock.content) = mock.content
  /\ \E i \in 1..5 : mock.content[i] = "\""
  /\ Len(mock.frames) = 5

----------------------------------------------------------------------------
----------------------------------------------------------------------------
\* How many request_updates a step emitted.
Emitted == mgr'.emitted[1].n + mgr'.emitted[2].n - Calls

\* C29: a client's connection sends it one request_update per existing session,
\* carrying the session as it is; from then on every step that emits
\* request_updates appends exactly these to what the client has been sent, each
\* carrying the session as the step left it.
C29_Snapshot(c) ==
  (~mgr.listeners[c].open /\ mgr'.listeners[c].open) =>
    LET inbox == mgr'.listeners[c].inbox
    IN /\ Len(inbox) = Cardinality(DOMAIN mgr.sessions)
       /\ \A id \in DOMAIN mgr.sessions :
            Cardinality({i \in 1..Len(inbox) : inbox[i] = RequestUpdate(mgr, id)}) = 1

C29_Updates(c) ==
  (mgr.listeners[c].open /\ mgr'.listeners[c].open) =>
    LET old == mgr.listeners[c].inbox
        inbox == mgr'.listeners[c].inbox
    IN /\ Len(inbox) = Len(old) + Emitted
       /\ SubSeq(inbox, 1, Len(old)) = old
       /\ \A i \in (Len(old) + 1)..Len(inbox) :
            /\ mgr'.emitted[inbox[i].id].n > mgr.emitted[inbox[i].id].n
            /\ inbox[i] = RequestUpdate(mgr', inbox[i].id)

C29_SnapshotThenEveryUpdate ==
  [][\A c \in Clients : C29_Snapshot(c) /\ C29_Updates(c)]_vars

\* A client that connected when one session existed and has been sent two
\* updates since, while another client connected later.
C29_Witness ==
  \E c, d \in Clients :
    /\ mgr.listeners[c].open /\ mgr.listeners[c].snapshot = 1
    /\ Len(mgr.listeners[c].inbox) = 3
    /\ mgr.listeners[d].open /\ mgr.listeners[d].snapshot = 2
    /\ Len(mgr.listeners[d].inbox) = 2

\* What a mutator's single request_update does: every open client is sent the
\* session as the mutator left it, and nobody anything else.
EmitsOnce(m, id) ==
  /\ m.emitted[id].n = mgr.emitted[id].n + 1
  /\ \A other \in Ids \ {id} : m.emitted[other] = mgr.emitted[other]
  /\ \A c \in Clients :
       m.listeners[c] = sendToClient(mgr.listeners[c], RequestUpdate(m, id))

Mutations(id) ==
  {updateState(mgr, id, st) : st \in RequestStates}
    \cup {setCacheAvailable(mgr, id, v) : v \in BOOLEAN}
    \cup {setResponseSource(mgr, id, src) : src \in {"llm", "cache", "mock"}}
    \cup {setResponse(mgr, id, status) : status \in {200, 429}}
    \cup {setProcessing(mgr, id), setReviewing(mgr, id), addToolCall(mgr, id, "call"),
          setFinishReason(mgr, id, "stop"), setUsage(mgr, id), complete(mgr, id),
          error(mgr, id, "Something went wrong")}

\* C30: in every state the broker reaches, each mutator applied to an existing
\* session emits one request_update to every subscriber, content append emits
\* none, and a mutator applied to an id without session changes nothing.
C30_OneUpdatePerMutation ==
  \A id \in Ids :
    IF Has(mgr, id)
      THEN /\ \A m \in Mutations(id) : EmitsOnce(m, id)
           /\ appendContent(mgr, id, "Hi").emitted = mgr.emitted
           /\ appendContent(mgr, id, "Hi").listeners = mgr.listeners
      ELSE /\ \A m \in Mutations(id) : m = mgr
           /\ appendContent(mgr, id, "Hi") = mgr

\* Two subscribers, a session that has content appended, and an id without
\* session.
C30_Witness ==
  /\ \A c \in Clients : mgr.listeners[c].open
  /\ Has(mgr, 1) /\ ~Has(mgr, 2)
  /\ mgr.sessions[1].response.present /\ mgr.sessions[1].response.content # <<>>
  /\ mgr.emitted[1].n = 2

----------------------------------------------------------------------------
\* The state changes a session may make with the given intervene setting.
C34_Allowed(intervene) ==
  IF intervene
    THEN {<<"pending", "processing">>, <<"processing", "reviewing">>,
          <<"reviewing", "complete">>}
    ELSE {<<"processing", "complete">>}

\* C34: with the intervene setting fixed, a session starts pending (intervene
\* on) or processing (off); each change of its state is the next one of
\* pending, processing, reviewing, complete (on) or of processing, complete
\* (off), or goes to complete with an error; off, it is never pending or
\* reviewing.
C34_StatesInOrder ==
  [][\A id \in Ids :
       LET intervene == mgr.settings.intervene
       IN /\ (~Has(mgr, id) /\ Has(mgr', id)) =>
               mgr'.sessions[id].state = IF intervene THEN "pending" ELSE "processing"
          /\ (Has(mgr, id) /\ mgr'.sessions[id].state # mgr.sessions[id].state) =>
               \/ <<mgr.sessions[id].state, mgr'.sessions[id].state>> \in C34_Allowed(intervene)
               \/ /\ mgr'.sessions[id].state = "complete"
                  /\ mgr'.sessions[id].error # "unset"
          /\ (Has(mgr', id) /\ ~intervene) =>
               mgr'.sessions[id].state \notin {"pending", "reviewing"}]_vars

\* One session went through the four states with the operator, another one
\* ended in an error.
C34_Witness ==
  /\ mgr.settings.intervene
  /\ Has(mgr, 1) /\ Has(mgr, 2)
  /\ mgr.sessions[1].state = "complete" /\ mgr.sessions[1].error = "unset"
  /\ mgr.emitted[1].n >= 4
  /\ mgr.sessions[2].state = "complete" /\ mgr.sessions[2].error # "unset"

----------------------------------------------------------------------------
\* C35: once the first request_update of a session, carrying state pending,
\* has been emitted, and until point 1 is resolved (the session is pending),
\* a point-1 action is taken: resolvePoint1 returns true.
C35_ActionNotLost ==
  \A id \in Ids :
    (Has(mgr, id) /\ mgr.sessions[id].state = "pending")
      => \A a \in Point1Actions : resolvePoint1(mgr, id, a).ok

----------------------------------------------------------------------------
\* C36: a point-1 awaiter is registered for a session only while its state is
\* pending, a point-2 awaiter only while its state is reviewing, and never
\* both for one session.
C36_AwaitersMatchState ==
  \A id \in Ids :
    /\ mgr.point1Resolvers[id] # 0 => Has(mgr, id) /\ mgr.sessions[id].state = "pending"
    /\ mgr.point2Resolvers[id] # 0 => Has(mgr, id) /\ mgr.sessions[id].state = "reviewing"
    /\ ~(mgr.point1Resolvers[id] # 0 /\ mgr.point2Resolvers[id] # 0)

----------------------------------------------------------------------------
\* C39: with cache = read, a request whose cache entry exists is never
\* answered with the cache_not_found 404.
C39_NotFoundOnlyOnMiss ==
  \A id \in Ids :
    (proxyConfig.cache = "read" /\ CacheNotFound(id))
      => cacheFiles[body[id].fp] = "absent"

----------------------------------------------------------------------------
\* C40: a session in state processing has its processing start set, and a set
\* processing start is never changed.
C40_ProcessingHasStart ==
  [][\A id \in Ids :
       /\ (Has(mgr', id) /\ mgr'.sessions[id].state = "processing")
            => mgr'.sessions[id].processingStartedAt
       /\ (Has(mgr, id) /\ mgr.sessions[id].processingStartedAt)
            => mgr'.sessions[id].processingStartedAt]_vars

----------------------------------------------------------------------------
\* C38: two requests answered with the same bytes, one by the llm path and
\* one by the cache path, leave the same response view on their sessions.
C38_SameView ==
  \A i, j \in Ids :
    (/\ pc[i] = "done" /\ pc[j] = "done"
     /\ Session(i).responseSource = "llm" /\ Session(j).responseSource = "cache"
     /\ reply[i].sent /\ reply[j].sent
     /\ reply[i].content = StreamBytes /\ reply[j].content = StreamBytes)
      => Session(i).response = Session(j).response

-----------------------------------------------------------------------------
\* C37: every record written to the cache holds exactly the chunks received
\* from upstream with an OK status for the writing request's fingerprint: the
\* file of a fingerprint changes only when a request with that fingerprint on
\* the llm path has got an OK answer and opens its record, or when that
\* request finishes its save, and what the path then holds is that complete
\* record.  Mock output, non-OK upstream bodies and a point-2 modify never
\* change a cache file.
C37_OnlyUpstreamChunks ==
  [][\A fp \in Fps :
       cacheFiles'[fp] # cacheFiles[fp]
         => \E id \in Ids :
              /\ body[id].fp = fp
              /\ \/ /\ pc[id] = "acquire" /\ loc[id].responseSource = "llm"
                    /\ pc'[id] = "save" /\ mgr'.sessions[id].response.status = 200
                    /\ cacheFiles'[fp] = "partial"
                 \/ /\ pc[id] = "save" /\ pc'[id] # "save"
                    /\ cacheFiles'[fp] = "ok"]_vars

(***************************************************************************)
(* The sessions a manager holds over a long run, and cleanup()              *)
(*                                                                          *)
(* this.sessions is a Map keyed by the request's fresh id: its entries are  *)
(* in insertion order, the order of creation.  Ids here are the creation    *)
(* numbers, so that ascending id is insertion order.                        *)
(***************************************************************************)
RetentionLimit == 100
MaxExtra == 2
\* As many sessions are open at a time as the server model serves requests
\* concurrently.
MaxOpen == Cardinality(Ids)
RegistryIds == 1..(RetentionLimit + MaxExtra)

NewRegistry ==
  [sessions |-> [i \in RegistryIds |-> "absent"],
   point1Resolvers |-> {}, point2Resolvers |-> {}, created |-> 0]

Held(r) == {i \in RegistryIds : r.sessions[i] # "absent"}
Completed(r) == {i \in RegistryIds : r.sessions[i] = "complete"}
Open(r) == Held(r) \ Completed(r)

\* The k smallest members of a set of ids: filter(...).slice(0, k) on entries
\* in insertion order.
RECURSIVE slice(_, _)
slice(ids, k) ==
  IF k <= 0 \/ ids = {} THEN {}
  ELSE LET first == CHOOSE i \in ids : \A j \in ids : i <= j
       IN {first} \cup slice(ids \ {first}, k - 1)

\* Faulty variant: the oldest sessions are removed whatever their state.
cleanupAnyState(r) ==
  IF Cardinality(Held(r)) > RetentionLimit
  THEN LET toRemove == slice(Held(r), Cardinality(Held(r)) - RetentionLimit)
       IN [r EXCEPT !.sessions =
             [i \in RegistryIds |-> IF i \in toRemove THEN "absent" ELSE @[i]]]
  ELSE r

cleanup(r) ==
  IF Cardinality(Held(r)) > RetentionLimit
  THEN LET toRemove == slice(Completed(r),
                             Cardinality(Held(r)) - RetentionLimit)
       IN [r EXCEPT !.sessions =
             [i \in RegistryIds |-> IF i \in toRemove THEN "absent" ELSE @[i]]]
  ELSE r

RegistryStep(r) ==
  registry' = r /\ UNCHANGED <<server, store, hasher, parser, mock, upstream>>

\* A request arrives: createSession under a fresh id and, when intervening,
\* waitForPoint1.
Arrive(intervene) ==
  /\ registry.created < RetentionLimit + MaxExtra
  /\ Cardinality(Open(registry)) < MaxOpen
  /\ LET id == registry.created + 1 IN
     RegistryStep([registry EXCEPT
       !.created = id,
       !.sessions[id] = IF intervene THEN "pending" ELSE "processing",
       !.point1Resolvers = IF intervene THEN @ \cup {id} ELSE @])

\* resolvePoint1(id, action)
Decide1(id) ==
  /\ id \in registry.point1Resolvers
  /\ RegistryStep([registry EXCEPT
       !.point1Resolvers = @ \ {id},
       !.sessions[id] = IF @ = "absent" THEN @ ELSE "processing"])

\* waitForPoint2(id)
Review(id) ==
  /\ registry.sessions[id] = "processing"
  /\ RegistryStep([registry EXCEPT
       !.sessions[id] = "reviewing",
       !.point2Resolvers = @ \cup {id}])

\* The request ends: resolvePoint2 when it waits at point 2, then complete(id).
Served(id) ==
  /\ \/ registry.sessions[id] = "processing"
     \/ id \in registry.point2Resolvers
  /\ RegistryStep([registry EXCEPT
       !.point2Resolvers = @ \ {id},
       !.sessions[id] = IF @ = "absent" THEN @ ELSE "complete"])

Cleanup == RegistryStep(cleanup(registry))

RegistryInit ==
  /\ ServerIdle
  /\ registry = NewRegistry
  /\ store = Unused /\ hasher = Unused /\ parser = Unused /\ mock = Unused
  /\ upstream = Unused

\* The running server: requests arrive and are served; nothing in the server
\* calls cleanup().
ServerRunNext ==
  \/ \E intervene \in BOOLEAN : Arrive(intervene)
  \/ \E id \in RegistryIds : Decide1(id) \/ Review(id) \/ Served(id)

ServerRunSpec == RegistryInit /\ [][ServerRunNext]_vars

\* The manager driven through its interface, cleanup() included.
CleanupNext == ServerRunNext \/ Cleanup

CleanupSpec == RegistryInit /\ [][CleanupNext]_vars

-----------------------------------------------------------------------------
\* C31: in every reachable state of the running server at most 100 completed
\* sessions are retained, without any caller having to ask for the eviction.
C31_AtMostLimitRetained == Cardinality(Completed(registry)) <= RetentionLimit

-----------------------------------------------------------------------------
\* C33: cleanup() removes only sessions in state complete, oldest first, and
\* only when more than 100 sessions are held; pending, processing and
\* reviewing sessions and the pending awaiters are untouched; and after it at
\* most 100 completed sessions remain.
C33_Removed == Held(registry) \ Held(registry')

C33_CleanupStep ==
  registry'.created = registry.created /\ C33_Removed # {}

C33_Cleanup ==
  C33_CleanupStep =>
    /\ Cardinality(Held(registry)) > RetentionLimit
    /\ \A i \in C33_Removed : registry.sessions[i] = "complete"
    /\ \A i \in C33_Removed, j \in Completed(registry') : i < j
    /\ \A i \in Held(registry') : registry'.sessions[i] = registry.sessions[i]
    /\ registry'.point1Resolvers = registry.point1Resolvers
    /\ registry'.point2Resolvers = registry.point2Resolvers
    /\ Cardinality(Completed(registry')) <= RetentionLimit

C33_CleanupRemovesOldestCompleted == [][C33_Cleanup]_vars

C33_Witness ==
  /\ Cardinality(Held(registry)) = RetentionLimit
  /\ registry.created > RetentionLimit
  /\ Open(registry) # {}
  /\ \E i \in Open(registry), j \in Completed(registry) : i < j
  /\ registry.sessions[1] = "absent"

(***************************************************************************)
(* A client that closes its connection while its request is suspended      *)
(***************************************************************************)
\* The client's socket closes while its request waits for the operator's
\* decision.  handleChatCompletions registers no close handler on the request
\* and reads no connection state: the task and the session are as they were.
ClientDisconnect(id) ==
  /\ \/ pc[id] = "point1" /\ mgr.point1Resolvers[id] # 0
     \/ pc[id] = "point2" /\ mgr.point2Resolvers[id] # 0
  /\ client[id] = "connected"
  /\ client' = [client EXCEPT ![id] = "gone"]
  /\ UNCHANGED <<lib, mgr, proxyConfig, cacheFiles, body, pc, loc, reply>>

DisconnectNext == FixedNext \/ \E id \in Ids : ClientDisconnect(id)

DisconnectSpec == Init /\ [][DisconnectNext]_vars

-----------------------------------------------------------------------------
\* C32: if the client disconnects while its session is suspended at point 1
\* or point 2, the session is retained and can still be resolved by the
\* operator, but after the resolution no response is written to that client.
C32_AbandonedNotWritten ==
  \A id \in Ids :
    client[id] = "gone" =>
      /\ Has(mgr, id)
      /\ (pc[id] = "point1" /\ ~Resolved1(id)) => mgr.point1Resolvers[id] # 0
      /\ (pc[id] = "point2" /\ ~Resolved2(id)) => mgr.point2Resolvers[id] # 0
      /\ ~reply[id].sent

====
